---- MODULE Spec2Model ----
(***************************************************************************)
(* Model of the polling-and-delivery engine of xitter-notify-server:      *)
(* the scheduler loop run_poller, the per-account task poll_user, the     *)
(* account table of db.rs and the extraction of twitter.rs.               *)
(*                                                                         *)
(* Strings that the code compares (sort_index, the progress marker) are   *)
(* sequences of digits, compared byte by byte as Rust compares str.       *)
(***************************************************************************)
EXTENDS Integers, Sequences, FiniteSets, TLC

\* ------------------------------------------------------------------ bounds

\* Distinct twitter_user_id values the registration surface is called with.
NumAccounts == 3
\* Largest semaphore capacity (config.max_concurrent) drawn at start-up.
MaxPermits == 2
\* Longest list of timeline entries in one fetched payload.
MaxEntries == 2

\* RateLimiter::new(max_requests, window_secs): the limit and the window of
\* the limiter explored (the server builds (5, 3600) and (10, 3600)).
max_requests == 2
window_secs == 2
\* The clock is explored from tick 0 to this tick.
MaxTicks == 8
\* check calls explored on one bucket beyond the max_requests admitted ones.
MaxRejected == 2

\* Concurrent calls on the transaction-id generator explored in one run.
NumCalls == 2
\* The generator's clock is explored from hour 0 to this hour.
MaxHours == 13

\* Most instructions in one payload the extraction is explored on; MaxEntries
\* bounds the entries of all its instructions together.
MaxInstructions == 2

Accounts == 1..NumAccounts
\* AUTOINCREMENT never reuses an id: one spare id for a re-registration.
MaxRowId == NumAccounts + 1
RowIds == 1..MaxRowId
Endpoints == {"https://up.example/a", "https://up.example/b"}

\* The bodies /register is called with: a session's credentials and the
\* push endpoint of the device.
Requests ==
  {[auth_token |-> "auth-a", csrf_token |-> "ct0-a",
    up_endpoint |-> "https://up.example/a"],
   [auth_token |-> "auth-b", csrf_token |-> "ct0-b",
    up_endpoint |-> "https://up.example/b"]}

\* sort_index tokens: "10", "5" and "9" ("10" < "5" < "9" as strings).
SortIndexes == {<<1, 0>>, <<5>>, <<9>>}

\* ------------------------------------------------------- strings, options

\* str::cmp, a < b: bytewise lexicographic order.
RECURSIVE StrLess(_, _)
StrLess(a, b) ==
  IF a = <<>> THEN b # <<>>
  ELSE IF b = <<>> THEN FALSE
  ELSE IF a[1] # b[1] THEN a[1] < b[1]
  ELSE StrLess(Tail(a), Tail(b))

StrLeq(a, b) == a = b \/ StrLess(a, b)

\* Option<String>
None == [some |-> FALSE, val |-> <<>>]
Some(s) == [some |-> TRUE, val |-> s]

\* ----------------------------------------------------------------- state

VARIABLES
  scenario,        \* what the outside world does in this run (never changes)
  max_concurrent,  \* config.max_concurrent
  users,           \* the users table: row id -> User
  next_id,         \* the table's AUTOINCREMENT sequence
  sched_pc,        \* run_poller: "tick" | "spawn" | "join"
  cycle_users,     \* run_poller: the users the spawning loop has yet to take
  sched_i,         \* run_poller: index of the handle the joining loop awaits
  last_tick,       \* run_poller: what get_all_users gave on the latest tick
  snapshot,        \* observation: the row ids get_all_users gave this cycle
  started,         \* observation: the row ids a task was spawned for this cycle
  permits,         \* free permits of this cycle's semaphore
  tasks,           \* the spawned poll_user futures, one per handle
  watched,         \* observation: the row id the two variables below follow
  sent,            \* observation: sort_index values POSTed for the watched row
  upd_failed,      \* observation: a marker update of the watched row failed
  failed_poll,     \* observation: the watched row's poll whose marker update
                   \* failed, until a later update of the row succeeds
  limits,          \* RateLimiter.limits: address -> (count, window start)
  now,             \* the clock Instant::now() reads, in ticks
  calls,           \* observation: per address, the results of the check calls
                   \* made on its bucket since the bucket was created or reset
  last_sweep,      \* observation: whether the latest limiter operation was a
                   \* cleanup, and the addresses it removed
  last_check,      \* observation: whether the latest limiter operation was a
                   \* check, its address, the bucket it found and its result
  unswept,         \* observation: the map the same check calls would have
                   \* left had no cleanup run
  payload,         \* the response body parse_notifications is called on
  extracted,       \* what parse_notifications returned for payload, if called
  state,           \* TxIdGenerator.state: the cached keys, or None
  hours,           \* the clock the generator reads, in hours
  txid_calls       \* the calls in flight on the generator: where each one
                   \* stands and what it returned

vars == <<scenario, max_concurrent, users, next_id, sched_pc, cycle_users, sched_i,
          last_tick, snapshot, started, permits, tasks, watched, sent, upd_failed,
          failed_poll, limits, now, calls, last_sweep, last_check, unswept,
          payload, extracted, state, hours, txid_calls>>

sched_vars == <<sched_pc, cycle_users, sched_i, last_tick, snapshot, started>>
hist_vars == <<watched, sent, upd_failed, failed_poll>>

\* The state of the poller and of the account table.
poller_vars ==
  <<scenario, max_concurrent, users, next_id, sched_vars, permits, tasks, hist_vars>>

\* The state of the rate limiter.
limiter_vars == <<limits, now, calls, last_sweep, last_check, unswept>>

\* The extraction called on its own: its input and its result.
extract_vars == <<payload, extracted>>

\* The state no step of the poller or of the account table touches.
aside_vars == <<limiter_vars, extract_vars, state, hours, txid_calls>>

\* The state of the transaction-id generator.
txid_vars == <<state, hours, txid_calls>>

\* --------------------------------------------------- http_client.rs: get/post

\* What one request comes back with: a transport failure, a body that cannot
\* be read, a non-2xx status, or a 2xx status with its body.
HttpResults == {"request_err", "body_err", "status_err", "ok"}

\* HttpClient::get / post with handle_response: Ok(body) only for a 2xx status.
HttpOk(resp) == resp.result = "ok"

\* ------------------------------------------------- twitter.rs: the probe

\* Bodies of the badge_count endpoint: not JSON; an object without the
\* ntab_unread_count field; the field with a non-integer value; the field
\* with an i32.
BadgeBodies ==
  {[json |-> FALSE, has_count |-> FALSE, count_is_int |-> FALSE, count |-> 0],
   [json |-> TRUE, has_count |-> FALSE, count_is_int |-> FALSE, count |-> 0],
   [json |-> TRUE, has_count |-> TRUE, count_is_int |-> FALSE, count |-> 0]}
  \cup {[json |-> TRUE, has_count |-> TRUE, count_is_int |-> TRUE, count |-> n] :
          n \in {0, 1}}

ProbeResponses ==
  {[result |-> r, body |-> CHOOSE b \in BadgeBodies : ~b.json] :
     r \in HttpResults \ {"ok"}}
  \cup {[result |-> "ok", body |-> b] : b \in BadgeBodies}

\* Mutant: ntab_unread_count has no #[serde(default)].
get_badge_count_FieldRequired(resp) ==
  IF ~HttpOk(resp) THEN [ok |-> FALSE, err |-> "Http", ntab_unread_count |-> 0]
  ELSE IF ~resp.body.json \/ ~resp.body.has_count \/ ~resp.body.count_is_int
    THEN [ok |-> FALSE, err |-> "Parse", ntab_unread_count |-> 0]
  ELSE [ok |-> TRUE, err |-> "", ntab_unread_count |-> resp.body.count]

\* get_badge_count: the request, then serde's BadgeCount with
\* #[serde(default)] on ntab_unread_count.
get_badge_count(resp) ==
  IF ~HttpOk(resp) THEN [ok |-> FALSE, err |-> "Http", ntab_unread_count |-> 0]
  ELSE IF ~resp.body.json
    THEN [ok |-> FALSE, err |-> "Parse", ntab_unread_count |-> 0]
  ELSE IF ~resp.body.has_count
    THEN [ok |-> TRUE, err |-> "", ntab_unread_count |-> 0]
  ELSE IF ~resp.body.count_is_int
    THEN [ok |-> FALSE, err |-> "Parse", ntab_unread_count |-> 0]
  ELSE [ok |-> TRUE, err |-> "", ntab_unread_count |-> resp.body.count]

\* ---------------------------------------------- twitter.rs: the extraction

\* entry_id.starts_with("cursor-")
IsCursorId(entry_id) == entry_id \in {"cursor-top-1", "cursor-bottom-1"}

\* Texts other than sort_index are sequences of pieces, so that format!
\* is concatenation; a category is a sequence of characters.
Text(piece) == <<piece>>

\* char::to_lowercase on the letters of the categories.
UpperCase ==
  <<"A", "B", "C", "D", "E", "F", "G", "H", "I", "J", "K", "L", "M",
    "N", "O", "P", "Q", "R", "S", "T", "U", "V", "W", "X", "Y", "Z">>
LowerCase ==
  <<"a", "b", "c", "d", "e", "f", "g", "h", "i", "j", "k", "l", "m",
    "n", "o", "p", "q", "r", "s", "t", "u", "v", "w", "x", "y", "z">>
LowerOf ==
  [c \in {UpperCase[i] : i \in 1..Len(UpperCase)} |->
     LowerCase[CHOOSE i \in 1..Len(UpperCase) : UpperCase[i] = c]]
ToLowerChar(c) == IF c \in DOMAIN LowerOf THEN LowerOf[c] ELSE c

\* str::to_lowercase
to_lowercase(str) == [i \in 1..Len(str) |-> ToLowerChar(str[i])]

\* The arms of normalize_notification_type: canonical tag and its patterns.
TypeLike == <<"l", "i", "k", "e">>
TypeRetweet == <<"r", "e", "t", "w", "e", "e", "t">>
TypeReply == <<"r", "e", "p", "l", "y">>
TypeMention == <<"m", "e", "n", "t", "i", "o", "n">>
TypeFollow == <<"f", "o", "l", "l", "o", "w">>
TypeQuote == <<"q", "u", "o", "t", "e">>
TypeArms ==
  <<[tag |-> TypeLike,
     patterns |-> {TypeLike, TypeLike \o <<"s">>, TypeLike \o <<"d">>}],
    [tag |-> TypeRetweet,
     patterns |-> {TypeRetweet, TypeRetweet \o <<"s">>,
                   TypeRetweet \o <<"e", "d">>}],
    [tag |-> TypeReply,
     patterns |-> {TypeReply, <<"r", "e", "p", "l", "i", "e", "s">>,
                   <<"r", "e", "p", "l", "i", "e", "d">>}],
    [tag |-> TypeMention,
     patterns |-> {TypeMention, TypeMention \o <<"s">>,
                   TypeMention \o <<"e", "d">>}],
    [tag |-> TypeFollow,
     patterns |-> {TypeFollow, TypeFollow \o <<"s">>,
                   TypeFollow \o <<"e", "d">>}],
    [tag |-> TypeQuote,
     patterns |-> {TypeQuote, TypeQuote \o <<"s">>, TypeQuote \o <<"d">>}]>>

\* Mutant: a category that matches no arm becomes "unknown".
normalize_notification_type_CatchAll(notification_type) ==
  LET lower == to_lowercase(notification_type)
  IN IF \E i \in 1..Len(TypeArms) : lower \in TypeArms[i].patterns
     THEN TypeArms[CHOOSE i \in 1..Len(TypeArms) :
                     lower \in TypeArms[i].patterns].tag
     ELSE <<"u", "n", "k", "n", "o", "w", "n">>

\* normalize_notification_type: the match on the lower-cased category.
normalize_notification_type(notification_type) ==
  LET lower == to_lowercase(notification_type)
  IN IF \E i \in 1..Len(TypeArms) : lower \in TypeArms[i].patterns
     THEN TypeArms[CHOOSE i \in 1..Len(TypeArms) :
                     lower \in TypeArms[i].patterns].tag
     ELSE lower

\* normalize_notification_type of the "unknown" that stands in for a missing
\* notificationType.
NormalizedUnknown ==
  normalize_notification_type(<<"u", "n", "k", "n", "o", "w", "n">>)

\* content.itemContent: each field is None when its path is absent or leads
\* to no string; fromUsers is the array (is_array FALSE when it is absent or
\* no array) of the users' names, None for a user without a name.
ItemContent(notificationType, message_text, header_text, full_text, fromUsers, url_url, rest_id, iconUrl) ==
  [notificationType |-> notificationType, message_text |-> message_text,
   header_text |-> header_text, full_text |-> full_text,
   fromUsers |-> fromUsers, url_url |-> url_url, rest_id |-> rest_id,
   iconUrl |-> iconUrl]

NoFromUsers == [is_array |-> FALSE, items |-> <<>>]
FromUsers(names) == [is_array |-> TRUE, items |-> names]

\* An itemContent with none of the fields.
BareItem == ItemContent(None, None, None, None, NoFromUsers, None, None, None)

\* Mutant: the header text is tried before the direct message text.
extract_notification_message_HeaderFirst(item_content) ==
  IF item_content.header_text.some THEN item_content.header_text.val
  ELSE IF item_content.message_text.some THEN item_content.message_text.val
  ELSE IF item_content.full_text.some THEN item_content.full_text.val
  ELSE Text("New notification")

\* extract_notification_message
extract_notification_message(item_content) ==
  IF item_content.message_text.some THEN item_content.message_text.val
  ELSE IF item_content.header_text.some THEN item_content.header_text.val
  ELSE IF item_content.full_text.some THEN item_content.full_text.val
  ELSE Text("New notification")

\* extract_from_users: the names of the users that have one, in order.
RECURSIVE NamesOf(_)
NamesOf(items) ==
  IF items = <<>> THEN <<>>
  ELSE IF Head(items).some THEN <<Head(items).val>> \o NamesOf(Tail(items))
  ELSE NamesOf(Tail(items))

extract_from_users(item_content) ==
  IF item_content.fromUsers.is_array
  THEN NamesOf(item_content.fromUsers.items)
  ELSE <<>>

\* extract_notification_url
extract_notification_url(item_content) ==
  IF item_content.url_url.some THEN Some(item_content.url_url.val)
  ELSE IF item_content.rest_id.some
    THEN Some(Text("https://x.com/i/status/") \o item_content.rest_id.val)
  ELSE None

\* One timeline entry: entryId ("" when absent), sortIndex (<<>> when absent
\* or not a string), whether content and content.itemContent are there, and
\* the itemContent.
EntryOf(id, sort_index, content, item, item_content) ==
  [entryId |-> id, sortIndex |-> sort_index, has_content |-> content,
   has_itemContent |-> item, itemContent |-> item_content]

\* An entry whose itemContent, if it has one, has none of the fields.
Entry(id, sort_index, content, item) ==
  EntryOf(id, sort_index, content, item, BareItem)

\* parse_notification_entry: None without itemContent.
parse_notification_entry(entry) ==
  IF ~entry.has_itemContent THEN <<>>
  ELSE LET item_content == entry.itemContent
       IN <<[sort_index |-> entry.sortIndex,
             notification_type |->
               IF item_content.notificationType.some
               THEN normalize_notification_type(
                      item_content.notificationType.val)
               ELSE NormalizedUnknown,
             message |-> extract_notification_message(item_content),
             icon_url |-> item_content.iconUrl,
             url |-> extract_notification_url(item_content),
             from_users |-> extract_from_users(item_content)]>>

\* Mutant: entries whose id marks a cursor are not skipped.
RECURSIVE ParseEntries_KeepsCursors(_)
ParseEntries_KeepsCursors(entries) ==
  IF entries = <<>> THEN <<>>
  ELSE LET entry == Head(entries)
           rest == ParseEntries_KeepsCursors(Tail(entries))
       IN IF entry.sortIndex = <<>> THEN rest
          ELSE IF ~entry.has_content THEN rest
          ELSE parse_notification_entry(entry) \o rest

\* The loop over one instruction's entries.
RECURSIVE ParseEntries(_)
ParseEntries(entries) ==
  IF entries = <<>> THEN <<>>
  ELSE LET entry == Head(entries)
           rest == ParseEntries(Tail(entries))
       IN IF IsCursorId(entry.entryId) THEN rest
          ELSE IF entry.sortIndex = <<>> THEN rest
          ELSE IF ~entry.has_content THEN rest
          ELSE parse_notification_entry(entry) \o rest

\* The loop over the instructions.
RECURSIVE ParseInstructions(_)
ParseInstructions(instructions) ==
  IF instructions = <<>> THEN <<>>
  ELSE LET instruction == Head(instructions)
           rest == ParseInstructions(Tail(instructions))
       IN IF instruction.type # "TimelineAddEntries" THEN rest
          ELSE IF ~instruction.has_entries THEN rest
          ELSE ParseEntries(instruction.entries) \o rest

\* Mutant: the element is put in front whatever its sort_index.
InsertDesc_Front(n, sorted) == <<n>> \o sorted

\* Insert n into a sequence sorted by sort_index descending, after the
\* elements that compare equal to it (sort_by is stable).
RECURSIVE InsertDesc(_, _)
InsertDesc(n, sorted) ==
  IF sorted = <<>> THEN <<n>>
  ELSE IF StrLess(Head(sorted).sort_index, n.sort_index)
    THEN <<n>> \o sorted
  ELSE <<Head(sorted)>> \o InsertDesc(n, Tail(sorted))

SortDesc_Unsorted(notifications) == notifications

\* notifications.sort_by(|a, b| b.sort_index.cmp(&a.sort_index))
RECURSIVE SortDesc(_)
SortDesc(notifications) ==
  IF notifications = <<>> THEN <<>>
  ELSE InsertDesc(notifications[Len(notifications)],
                  SortDesc(SubSeq(notifications, 1, Len(notifications) - 1)))

\* One element of the top-level "errors" array; has_message is whether it
\* has a "message" that is a string.
ErrorItem(has_message, message) ==
  [has_message |-> has_message, message |-> message]

\* The top-level "errors" value: kind is "absent" (no such key), "other" (a
\* value that is no array) or "array", with the array's elements.
Errors(kind, items) == [kind |-> kind, items |-> items]
NoErrors == Errors("absent", <<>>)

\* errors.as_array().and_then(|arr| arr.first())
FirstError(errors) ==
  IF errors.kind = "array" /\ errors.items # <<>>
  THEN [some |-> TRUE, val |-> errors.items[1]]
  ELSE [some |-> FALSE, val |-> ErrorItem(FALSE, "")]

\* first_error.get("message").and_then(|m| m.as_str()).unwrap_or(..)
ErrorMessage(first_error) ==
  IF first_error.has_message THEN first_error.message ELSE "Unknown error"

\* Mutant: the check of the top-level errors array is missing.
parse_notifications_NoErrorCheck(body) ==
  IF ~body.json
  THEN [ok |-> FALSE, err |-> "Parse", message |-> "", notifs |-> <<>>]
  ELSE IF ~body.has_instructions
    THEN [ok |-> TRUE, err |-> "", message |-> "", notifs |-> <<>>]
  ELSE [ok |-> TRUE, err |-> "", message |-> "",
        notifs |-> SortDesc(ParseInstructions(body.instructions))]

\* Mutant: the API error carries the message of the last error of the array.
parse_notifications_LastError(body) ==
  IF ~body.json
  THEN [ok |-> FALSE, err |-> "Parse", message |-> "", notifs |-> <<>>]
  ELSE IF FirstError(body.errors).some
    THEN [ok |-> FALSE, err |-> "Api",
          message |-> ErrorMessage(body.errors.items[Len(body.errors.items)]),
          notifs |-> <<>>]
  ELSE IF ~body.has_instructions
    THEN [ok |-> TRUE, err |-> "", message |-> "", notifs |-> <<>>]
  ELSE [ok |-> TRUE, err |-> "", message |-> "",
        notifs |-> SortDesc(ParseInstructions(body.instructions))]

\* parse_notifications on a response body; message is the text the error
\* variant carries.
parse_notifications(body) ==
  IF ~body.json
  THEN [ok |-> FALSE, err |-> "Parse", message |-> "", notifs |-> <<>>]
  ELSE IF FirstError(body.errors).some
    THEN [ok |-> FALSE, err |-> "Api",
          message |-> ErrorMessage(FirstError(body.errors).val),
          notifs |-> <<>>]
  ELSE IF ~body.has_instructions
    THEN [ok |-> TRUE, err |-> "", message |-> "", notifs |-> <<>>]
  ELSE [ok |-> TRUE, err |-> "", message |-> "",
        notifs |-> SortDesc(ParseInstructions(body.instructions))]

\* get_notifications: the request, then parse_notifications.
get_notifications(resp) ==
  IF ~HttpOk(resp)
  THEN [ok |-> FALSE, err |-> "Http", message |-> "", notifs |-> <<>>]
  ELSE parse_notifications(resp.body)

\* ------------------------------------------ the timeline bodies of the model

\* Sequences without repetition over S, of length at most n.
RECURSIVE DistinctSeqs(_, _)
DistinctSeqs(S, n) ==
  IF n = 0 THEN {<<>>}
  ELSE LET shorter == DistinctSeqs(S, n - 1)
       IN shorter \cup
          {Append(q, x) : <<q, x>> \in
             {<<q, x>> \in shorter \X S :
                Len(q) = n - 1 /\ \A i \in 1..Len(q) : q[i] # x}}

\* A body whose one TimelineAddEntries instruction lists the given
\* sort_index values in the given order.
TimelineBody(indexes, errors) ==
  [json |-> TRUE, errors |-> errors, has_instructions |-> TRUE,
   instructions |->
     <<[type |-> "TimelineAddEntries", has_entries |-> TRUE,
        entries |-> [i \in 1..Len(indexes) |->
                       Entry("notification-1", indexes[i], TRUE, TRUE)]]>>]

NotJson ==
  [json |-> FALSE, errors |-> NoErrors, has_instructions |-> FALSE,
   instructions |-> <<>>]

FetchResponses(timeline) ==
  {[result |-> r, body |-> NotJson] : r \in HttpResults \ {"ok"}}
  \cup {[result |-> "ok", body |-> NotJson]}
  \cup {[result |-> "ok", body |-> TimelineBody(<<<<9>>>>,
                      Errors("array", <<ErrorItem(TRUE, "Rate limit exceeded")>>))]}
  \cup {[result |-> "ok", body |-> TimelineBody(q, NoErrors)] :
          q \in DistinctSeqs(timeline, MaxEntries)}

\* ------------------------------------- the payloads the extraction is run on

\* The entries of the payloads: a notification under each sort_index, a
\* cursor, an entry without (or with an empty) sortIndex, one without
\* content and one whose content has no itemContent.
PayloadEntries ==
  {Entry("notification-1", s, TRUE, TRUE) : s \in SortIndexes}
  \cup {Entry("cursor-top-1", <<9>>, TRUE, TRUE),
         Entry("notification-1", <<>>, TRUE, TRUE),
         Entry("notification-1", <<5>>, FALSE, FALSE),
         Entry("notification-1", <<5>>, TRUE, FALSE)}

\* The lists of exactly n payload entries.
RECURSIVE EntryLists(_)
EntryLists(n) ==
  IF n = 0 THEN {<<>>}
  ELSE {<<e>> \o es : e \in PayloadEntries, es \in EntryLists(n - 1)}

\* instruction["type"]; one that is absent or no string compares like
\* "TimelineClearCache", unequal to "TimelineAddEntries".
InstructionTypes == {"TimelineAddEntries", "TimelineClearCache"}

\* The instructions with exactly n entries; one without an "entries" array
\* has none.
InstructionsWith(n) ==
  {[type |-> t, has_entries |-> TRUE, entries |-> es] :
     t \in InstructionTypes, es \in EntryLists(n)}
  \cup (IF n = 0
        THEN {[type |-> "TimelineAddEntries", has_entries |-> FALSE,
               entries |-> <<>>]}
        ELSE {})

\* The lists of at most n instructions with at most m entries in all.
RECURSIVE InstructionLists(_, _)
InstructionLists(n, m) ==
  IF n = 0 THEN {<<>>}
  ELSE {<<>>} \cup
       UNION {{<<ins>> \o rest : ins \in InstructionsWith(k),
                                 rest \in InstructionLists(n - 1, m - k)} :
                k \in 0..m}

\* The values of the top-level "errors" key.
ErrorsValues ==
  {NoErrors, Errors("other", <<>>), Errors("array", <<>>),
   Errors("array", <<ErrorItem(FALSE, "")>>),
   Errors("array", <<ErrorItem(TRUE, "Rate limit exceeded")>>),
   Errors("array", <<ErrorItem(TRUE, "Rate limit exceeded"),
                     ErrorItem(TRUE, "Could not authenticate you")>>),
   Errors("array", <<ErrorItem(TRUE, "Could not authenticate you"),
                     ErrorItem(TRUE, "Rate limit exceeded")>>)}

\* The spellings of a lower-case category: itself, capitalised, upper case.
Capitalised(str) ==
  [i \in 1..Len(str) |->
     IF i = 1 /\ \E j \in 1..Len(LowerCase) : LowerCase[j] = str[i]
     THEN UpperCase[CHOOSE j \in 1..Len(LowerCase) : LowerCase[j] = str[i]]
     ELSE str[i]]
AllCapitals(str) ==
  [i \in 1..Len(str) |->
     IF \E j \in 1..Len(LowerCase) : LowerCase[j] = str[i]
     THEN UpperCase[CHOOSE j \in 1..Len(LowerCase) : LowerCase[j] = str[i]]
     ELSE str[i]]
Spellings(str) == {str, Capitalised(str), AllCapitals(str)}

\* The notificationType values of the payloads: every pattern of every arm
\* and some categories no arm matches, each in its spellings.
RawCategories ==
  UNION {Spellings(str) :
           str \in UNION {TypeArms[i].patterns : i \in 1..Len(TypeArms)}}
  \cup UNION {Spellings(str) :
                str \in {<<"s", "p", "a", "c", "e", "s">>,
                         <<"u", "n", "k", "n", "o", "w", "n">>,
                         <<"l", "i", "k", "e", "r">>,
                         <<"l", "i", "k", "e", "_", "2">>, <<>>}}

\* The fromUsers values of the payloads.
FromUsersValues ==
  {NoFromUsers, FromUsers(<<>>), FromUsers(<<Some(Text("Ann"))>>),
   FromUsers(<<None, Some(Text("Bob"))>>),
   FromUsers(<<Some(Text("Ann")), None, Some(Text("Bob"))>>)}

\* The itemContent values of the payloads: each category without any other
\* field, and each combination of the other fields.
ItemContents ==
  {ItemContent(Some(c), None, None, None, NoFromUsers, None, None, None) :
     c \in RawCategories}
  \cup {ItemContent(None, m, h, f, us, u, r, i) :
          m \in {None, Some(Text("liked your post"))},
          h \in {None, Some(Text("New like"))},
          f \in {None, Some(Text("the post's text"))},
          us \in FromUsersValues,
          u \in {None, Some(Text("https://x.com/notifications"))},
          r \in {None, Some(Text("1234"))},
          i \in {None, Some(Text("https://abs.twimg.com/heart.png"))}}

\* A body whose one TimelineAddEntries instruction has one entry with the
\* given itemContent.
ItemBody(item_content) ==
  [json |-> TRUE, errors |-> NoErrors, has_instructions |-> TRUE,
   instructions |->
     <<[type |-> "TimelineAddEntries", has_entries |-> TRUE,
        entries |-> <<EntryOf("notification-1", <<5>>, TRUE, TRUE,
                              item_content)>>]>>]

\* The bodies parse_notifications is explored on: one that is no JSON, the
\* JSON bodies with each errors value, without the instructions array and
\* with each list of at most n instructions and m entries, and the bodies of
\* one entry with each itemContent.
Payloads(n, m) ==
  {NotJson}
  \cup {ItemBody(item_content) : item_content \in ItemContents}
  \cup {[json |-> TRUE, errors |-> e, has_instructions |-> FALSE,
          instructions |-> <<>>] : e \in ErrorsValues}
  \cup {[json |-> TRUE, errors |-> e, has_instructions |-> TRUE,
          instructions |-> q] :
          e \in ErrorsValues, q \in InstructionLists(n, m)}

\* ---------------------------------------------------------- db.rs: the table

\* A row of users as get_all_users reads it into a User.
User(id, twitter_user_id, auth_token, csrf_token, up_endpoint, last) ==
  [id |-> id, twitter_user_id |-> twitter_user_id, auth_token |-> auth_token,
   csrf_token |-> csrf_token, up_endpoint |-> up_endpoint,
   last_notif_sort_index |-> last]

\* The row ids holding the given twitter_user_id (UNIQUE: at most one).
RowsOf(table, twitter_user_id) ==
  {r \in DOMAIN table : table[r].twitter_user_id = twitter_user_id}

\* Mutant: the upsert replaces the row, marker included.
register_user_ResetsMarker(table, id, twitter_user_id, auth_token, csrf_token, up_endpoint) ==
  IF RowsOf(table, twitter_user_id) # {}
    THEN [r \in DOMAIN table |->
            IF table[r].twitter_user_id = twitter_user_id
              THEN User(r, twitter_user_id, auth_token, csrf_token, up_endpoint,
                        None)
              ELSE table[r]]
    ELSE [r \in DOMAIN table \cup {id} |->
            IF r = id
              THEN User(id, twitter_user_id, auth_token, csrf_token, up_endpoint,
                        None)
              ELSE table[r]]

\* register_user: INSERT ... ON CONFLICT(twitter_user_id) DO UPDATE SET the
\* credentials and up_endpoint; the marker column is not in the SET list.
register_user(table, id, twitter_user_id, auth_token, csrf_token, up_endpoint) ==
  IF RowsOf(table, twitter_user_id) # {}
    THEN [r \in DOMAIN table |->
            IF table[r].twitter_user_id = twitter_user_id
              THEN [table[r] EXCEPT !.auth_token = auth_token,
                                    !.csrf_token = csrf_token,
                                    !.up_endpoint = up_endpoint]
              ELSE table[r]]
    ELSE [r \in DOMAIN table \cup {id} |->
            IF r = id
              THEN User(id, twitter_user_id, auth_token, csrf_token, up_endpoint,
                        None)
              ELSE table[r]]

\* unregister_user: DELETE FROM users WHERE twitter_user_id = ?1
unregister_user(table, twitter_user_id) ==
  [r \in DOMAIN table \ RowsOf(table, twitter_user_id) |-> table[r]]

\* get_all_users: the rows, in rowid order.
RECURSIVE RowsInOrder(_, _)
RowsInOrder(table, ids) ==
  IF ids = {} THEN <<>>
  ELSE LET first == CHOOSE r \in ids : \A q \in ids : r <= q
       IN <<table[first]>> \o RowsInOrder(table, ids \ {first})

get_all_users(table) == RowsInOrder(table, DOMAIN table)

\* Mutant: the UPDATE has no WHERE clause.
update_last_notif_AllRows(table, user_id, sort_index) ==
  [r \in DOMAIN table |->
     [table[r] EXCEPT !.last_notif_sort_index = Some(sort_index)]]

\* Mutant: the statement inserts the row when no row has the id.
update_last_notif_Upsert(table, user_id, sort_index) ==
  [r \in DOMAIN table \cup {user_id} |->
     IF r = user_id
       THEN IF r \in DOMAIN table
              THEN [table[r] EXCEPT !.last_notif_sort_index = Some(sort_index)]
              ELSE User(r, 0, "", "", "", Some(sort_index))
       ELSE table[r]]

\* update_last_notif: UPDATE users SET last_notif_sort_index = ?1 WHERE id = ?2
update_last_notif(table, user_id, sort_index) ==
  [r \in DOMAIN table |->
     IF r = user_id
       THEN [table[r] EXCEPT !.last_notif_sort_index = Some(sort_index)]
       ELSE table[r]]

\* ------------------------------------------------------ poller.rs: poll_user

\* Mutant: the filter compares with >= instead of >.
NewNotifs_Geq(notifs, last) ==
  SelectSeq(notifs, LAMBDA n : IF last.some THEN StrLeq(last.val, n.sort_index)
                                 ELSE TRUE)

\* Mutant: the filter is missing, every extracted notification is kept.
NewNotifs_All(notifs, last) == notifs

\* Step 3: the filter of new_notifs against user.last_notif_sort_index.
NewNotifs(notifs, last) ==
  SelectSeq(notifs, LAMBDA n : IF last.some THEN StrLess(last.val, n.sort_index)
                                 ELSE TRUE)

\* Mutant: the marker is taken from the last notification sent.
Newest_Last(new_notifs) == new_notifs[Len(new_notifs)].sort_index

\* Step 5: max_by(|a, b| a.sort_index.cmp(&b.sort_index)) of a non-empty
\* new_notifs; of several maxima max_by returns the last.
RECURSIVE Newest(_)
Newest(new_notifs) ==
  IF Len(new_notifs) = 1 THEN new_notifs[1].sort_index
  ELSE LET rest == Newest(Tail(new_notifs))
       IN IF StrLess(rest, new_notifs[1].sort_index)
            THEN new_notifs[1].sort_index
            ELSE rest

\* The user of a task whose handle was awaited.
NoUser == User(0, 0, "", "", "", None)

\* A spawned future before its first await; user is moved into it. badge,
\* notifs, new_notifs are poll_user's locals (badge is <<>> until step 1
\* returned Ok). The other fields record what the task did: the requests it
\* issued (n_probe, n_fetch, n_update, attempts: one entry per POST), whether
\* the fetch came back as a failure, and poll_user's result.
NewTask(user) ==
  [pc |-> "probe", user |-> user, badge |-> <<>>, count_field |-> "none",
   notifs |-> <<>>,
   new_notifs |-> <<>>, attempts |-> <<>>, n_probe |-> 0, n_fetch |-> 0,
   n_update |-> 0, update_missed |-> FALSE, fetch_failed |-> FALSE,
   result |-> "none"]

\* What is left of a task once its handle was awaited and its output dropped.
JoinedTask == [NewTask(NoUser) EXCEPT !.pc = "joined"]

Running(t) == t.pc \in {"probe", "fetch", "send", "update"}

\* A request that came back as a failure: transport error, unreadable body or
\* non-2xx status.
RequestFailed(resp) == resp.result # "ok"

\* A timeline response that is no timeline: not JSON, or an upstream
\* API-error payload.
ErrorPayload(resp) ==
  resp.result = "ok" /\ (~resp.body.json \/ FirstError(resp.body.errors).some)

\* Mutant: the permit is not given back when the future returns.
Finish_KeepsPermit(k, t, result) ==
  /\ tasks' = [tasks EXCEPT ![k] = [t EXCEPT !.pc = "done", !.result = result]]
  /\ permits' = permits

\* The future returns: poll_user's result is logged and the permit dropped.
Finish(k, t, result) ==
  /\ tasks' = [tasks EXCEPT ![k] = [t EXCEPT !.pc = "done", !.result = result]]
  /\ permits' = permits + 1

\* Mutant: the short-circuit on an unread count of 0 is missing.
BadgeIsZero_Never(badge) == FALSE

\* Observation, kept for the task of the watched row (count_field):
\* what a probe response holds under ntab_unread_count: "none" when the
\* request failed or the body is no JSON, else "absent", "unparseable" (a
\* value that is no i32) or "integer".
CountField(resp) ==
  IF ~HttpOk(resp) \/ ~resp.body.json THEN "none"
  ELSE IF ~resp.body.has_count THEN "absent"
  ELSE IF ~resp.body.count_is_int THEN "unparseable"
  ELSE "integer"

\* `if badge.ntab_unread_count == 0 { return Ok(()) }`
BadgeIsZero(badge) == badge.ntab_unread_count = 0

\* Step 1: get_badge_count; Err returns, a count of 0 returns Ok.
Probe(k) ==
  /\ k \in DOMAIN tasks
  /\ tasks[k].pc = "probe"
  /\ \E resp \in ProbeResponses :
       LET badge == get_badge_count(resp)
           t == [tasks[k] EXCEPT !.n_probe = @ + 1,
                                 !.count_field =
                                    IF tasks[k].user.id = watched
                                    THEN CountField(resp) ELSE "none",
                                 !.badge = IF badge.ok
                                             THEN <<badge.ntab_unread_count>>
                                             ELSE <<>>]
       IN IF ~badge.ok THEN Finish(k, t, "err")
          ELSE IF BadgeIsZero(badge) THEN Finish(k, t, "ok")
          ELSE /\ tasks' = [tasks EXCEPT ![k] = [t EXCEPT !.pc = "fetch"]]
               /\ UNCHANGED permits
  /\ UNCHANGED <<aside_vars, scenario, max_concurrent, users, next_id, sched_vars, hist_vars>>

\* Steps 2 and 3: get_notifications, then the filter; Err returns, an empty
\* new_notifs returns Ok.
Fetch(k) ==
  /\ k \in DOMAIN tasks
  /\ tasks[k].pc = "fetch"
  /\ \E resp \in FetchResponses(scenario.timeline) :
       LET notifs == get_notifications(resp)
           new_notifs ==
             NewNotifs(notifs.notifs, tasks[k].user.last_notif_sort_index)
           t == [tasks[k] EXCEPT !.n_fetch = @ + 1,
                                 !.fetch_failed = RequestFailed(resp)
                                                    \/ ErrorPayload(resp)]
       IN IF ~notifs.ok THEN Finish(k, t, "err")
          ELSE LET u == [t EXCEPT !.notifs = notifs.notifs,
                                  !.new_notifs = new_notifs]
               IN IF new_notifs = <<>> THEN Finish(k, u, "ok")
                  ELSE /\ tasks' = [tasks EXCEPT ![k] = [u EXCEPT !.pc = "send"]]
                       /\ UNCHANGED permits
  /\ UNCHANGED <<aside_vars, scenario, max_concurrent, users, next_id, sched_vars, hist_vars>>

\* Mutant: a failed delivery ends the loop.
AfterSend_StopOnError(t, i, delivered) ==
  IF i = Len(t.new_notifs) \/ ~delivered THEN "update" ELSE "send"

\* After the POST for new_notifs[i] returned (delivered: with Ok): an Err is
\* logged only, so the next iteration follows, or step 5 after the last.
AfterSend(t, i, delivered) == IF i = Len(t.new_notifs) THEN "update" ELSE "send"

\* Step 4, one iteration: unified_push::send of the next notification to
\* user.up_endpoint.
Send(k) ==
  /\ k \in DOMAIN tasks
  /\ tasks[k].pc = "send"
  /\ \E outcome \in HttpResults :
       LET t == tasks[k]
           i == Len(t.attempts) + 1
           notif == t.new_notifs[i]
       IN /\ tasks' = [tasks EXCEPT ![k] =
                         [t EXCEPT !.attempts =
                                     Append(@, [sort_index |-> notif.sort_index,
                                                ok |-> outcome = "ok"]),
                                   !.pc = AfterSend(t, i, outcome = "ok")]]
          /\ sent' = IF t.user.id = watched
                       THEN sent \cup {notif.sort_index} ELSE sent
  /\ UNCHANGED <<aside_vars, scenario, max_concurrent, users, next_id, sched_vars, permits,
                 watched, upd_failed, failed_poll>>

\* No poll of the watched row is on record.
NoFailedPoll == [some |-> FALSE, last |-> None, notifs |-> <<>>, new_notifs |-> <<>>]

\* What a task whose marker update failed had read, extracted and kept.
FailedPoll(t) ==
  [some |-> TRUE, last |-> t.user.last_notif_sort_index, notifs |-> t.notifs,
   new_notifs |-> t.new_notifs]

\* Mutant: the statement that returns Err has written the marker.
update_last_notif_Err_Writes(table, user_id, sort_index) ==
  update_last_notif(table, user_id, sort_index)

\* update_last_notif returning Err: conn.execute failed, no row was changed.
update_last_notif_Err(table, user_id, sort_index) == table

\* Step 5: update_last_notif(user.id, newest.sort_index); its Err is
\* poll_user's Err.
UpdateMarker(k) ==
  /\ k \in DOMAIN tasks
  /\ tasks[k].pc = "update"
  /\ \E db_ok \in BOOLEAN :
       LET t == [tasks[k] EXCEPT !.n_update = @ + 1,
                                 !.update_missed =
                                    /\ tasks[k].user.id = watched
                                    /\ tasks[k].user.id \notin DOMAIN users]
           user == tasks[k].user
       IN IF db_ok
            THEN /\ users' = update_last_notif(users, user.id, Newest(t.new_notifs))
                 /\ Finish(k, t, "ok")
                 /\ failed_poll' = IF user.id = watched THEN NoFailedPoll
                                   ELSE failed_poll
                 /\ UNCHANGED upd_failed
            ELSE /\ users' = update_last_notif_Err(users, user.id,
                                                   Newest(t.new_notifs))
                 /\ Finish(k, t, "err")
                 /\ upd_failed' = (upd_failed \/ user.id = watched)
                 /\ failed_poll' = IF user.id = watched THEN FailedPoll(t)
                                   ELSE failed_poll
  /\ UNCHANGED <<aside_vars, scenario, max_concurrent, next_id, sched_vars, watched, sent>>

\* ----------------------------------------------------- poller.rs: run_poller

\* Mutant: the spawning loop does not wait for a permit.
CanAcquire_NoWait(free) == TRUE

\* Mutant: a capacity of 0 means no limit.
CanAcquire_ZeroIsNoLimit(free) == free > 0 \/ max_concurrent = 0

\* acquire_owned().await completes only when a permit is free.
CanAcquire(free) == free > 0

\* Mutant: the joining loop does not wait for the task.
Joined_NoWait(t) == TRUE

\* Mutant: a handle that resolves to an error is never got past.
Joined_OnlyOk(t) == t.pc = "done" /\ t.result = "ok"

\* handle.await completes only when the task has returned.
Joined(t) == t.pc = "done"

\* `let _ = handle.await`: the output of a returned task is dropped.
Awaited(t) == IF t.pc = "done" THEN JoinedTask ELSE t

\* Mutant: an empty Vec does not skip the tick.
TickSkipped_OnlyOnErr(db_ok, all_users) == ~db_ok

\* The two `continue` of the loop head: get_all_users returned Err, or
\* users.is_empty().
TickSkipped(db_ok, all_users) == ~db_ok \/ all_users = <<>>

\* poll_interval.tick(), then get_all_users: an Err or an empty Vec goes back
\* to the tick; otherwise a new semaphore and an empty handles Vec.
Tick ==
  /\ sched_pc = "tick"
  /\ \E db_ok \in BOOLEAN :
       LET all_users == get_all_users(users)
       IN /\ last_tick' = IF ~db_ok THEN "err"
                          ELSE IF all_users = <<>> THEN "empty" ELSE "users"
          /\ IF TickSkipped(db_ok, all_users)
               THEN UNCHANGED <<cycle_users, permits, tasks, sched_i, sched_pc,
                                snapshot, started>>
               ELSE /\ cycle_users' = all_users
                    /\ snapshot' = [i \in 1..Len(all_users) |-> all_users[i].id]
                    /\ started' = <<>>
                    /\ permits' = max_concurrent
                    /\ tasks' = <<>>
                    /\ sched_i' = 1
                    /\ sched_pc' = "spawn"
  /\ UNCHANGED <<aside_vars, scenario, max_concurrent, users, next_id, hist_vars>>

\* Mutant: the loop steps over every second user.
Rest_SkipsOne(us) == IF Len(us) >= 2 THEN Tail(Tail(us)) ELSE <<>>

\* `for user in users`: what the iterator holds after it yielded a user.
Rest(us) == Tail(us)

\* One iteration of `for user in users`: acquire a permit, spawn the task
\* and push its handle.
Spawn ==
  /\ sched_pc = "spawn"
  /\ CanAcquire(permits)
  /\ permits' = permits - 1
  /\ tasks' = Append(tasks, NewTask(Head(cycle_users)))
  /\ started' = Append(started, Head(cycle_users).id)
  /\ cycle_users' = Rest(cycle_users)
  /\ sched_pc' = IF Rest(cycle_users) = <<>> THEN "join" ELSE "spawn"
  /\ UNCHANGED <<aside_vars, scenario, max_concurrent, users, next_id, sched_i, last_tick,
                 snapshot, hist_vars>>

\* One iteration of `for handle in handles`: handle.await.
AwaitHandle ==
  /\ sched_pc = "join"
  /\ Joined(tasks[sched_i])
  /\ tasks' = [tasks EXCEPT ![sched_i] = Awaited(@)]
  /\ IF sched_i = Len(tasks)
       THEN sched_pc' = "tick" /\ sched_i' = 1
       ELSE sched_pc' = "join" /\ sched_i' = sched_i + 1
  /\ UNCHANGED <<aside_vars, scenario, max_concurrent, users, next_id, cycle_users, last_tick,
                 snapshot, started, permits, hist_vars>>

\* ------------------------------------------------ api.rs: the admin surface

\* POST /register reaching Db::register_user (a storage error changes nothing).
Register(twitter_user_id, req) ==
  /\ twitter_user_id \in scenario.ids
  /\ req.up_endpoint \in scenario.endpoints
  /\ RowsOf(users, twitter_user_id) = {} => next_id <= MaxRowId
  /\ users' = register_user(users, next_id, twitter_user_id, req.auth_token,
                            req.csrf_token, req.up_endpoint)
  /\ next_id' = IF RowsOf(users, twitter_user_id) = {} THEN next_id + 1 ELSE next_id
  /\ UNCHANGED <<aside_vars, scenario, max_concurrent, sched_vars, permits, tasks, hist_vars>>

\* DELETE /unregister reaching Db::unregister_user.
Unregister(twitter_user_id) ==
  /\ twitter_user_id \in scenario.unregisters
  /\ RowsOf(users, twitter_user_id) # {}
  /\ users' = unregister_user(users, twitter_user_id)
  /\ UNCHANGED <<aside_vars, scenario, max_concurrent, next_id, sched_vars, permits, tasks, hist_vars>>

\* --------------------------------------------------------- rate_limit.rs

\* Ticks of the clock in one second: Duration::as_secs drops the fraction.
TicksPerSec == 2

\* The source addresses of the requests.
Addresses == {"10.0.0.1", "10.0.0.2"}

\* instant.elapsed().as_secs() at the time t.
ElapsedSecs(instant, t) == (t - instant) \div TicksPerSec

\* A bucket: the (u32, Instant) of the map.
Bucket(count, start) == [count |-> count, start |-> start]

\* limits with the bucket of ip set to entry.
WithEntry(table, ip, entry) ==
  [a \in DOMAIN table \cup {ip} |-> IF a = ip THEN entry ELSE table[a]]

\* Mutant: the limit is tested with > instead of >=.
check_OneMore(table, ip, t) ==
  LET inserted == IF ip \in DOMAIN table THEN table[ip] ELSE Bucket(0, t)
      entry == IF ElapsedSecs(inserted.start, t) > window_secs
                 THEN Bucket(0, t) ELSE inserted
  IN IF entry.count > max_requests
       THEN [limits |-> WithEntry(table, ip, entry), allowed |-> FALSE,
             fresh |-> entry # inserted \/ ip \notin DOMAIN table]
       ELSE [limits |-> WithEntry(table, ip, Bucket(entry.count + 1, entry.start)),
             allowed |-> TRUE,
             fresh |-> entry # inserted \/ ip \notin DOMAIN table]

\* Mutant: the window is reset from window_secs seconds on.
check_ResetsAtWindow(table, ip, t) ==
  LET inserted == IF ip \in DOMAIN table THEN table[ip] ELSE Bucket(0, t)
      entry == IF ElapsedSecs(inserted.start, t) >= window_secs
                 THEN Bucket(0, t) ELSE inserted
  IN IF entry.count >= max_requests
       THEN [limits |-> WithEntry(table, ip, entry), allowed |-> FALSE,
             fresh |-> entry # inserted \/ ip \notin DOMAIN table]
       ELSE [limits |-> WithEntry(table, ip, Bucket(entry.count + 1, entry.start)),
             allowed |-> TRUE,
             fresh |-> entry # inserted \/ ip \notin DOMAIN table]

\* Mutant: a rejected request restarts the window.
check_RejectRestarts(table, ip, t) ==
  LET inserted == IF ip \in DOMAIN table THEN table[ip] ELSE Bucket(0, t)
      entry == IF ElapsedSecs(inserted.start, t) > window_secs
                 THEN Bucket(0, t) ELSE inserted
  IN IF entry.count >= max_requests
       THEN [limits |-> WithEntry(table, ip, Bucket(entry.count, t)),
             allowed |-> FALSE,
             fresh |-> entry # inserted \/ ip \notin DOMAIN table]
       ELSE [limits |-> WithEntry(table, ip, Bucket(entry.count + 1, entry.start)),
             allowed |-> TRUE,
             fresh |-> entry # inserted \/ ip \notin DOMAIN table]

\* RateLimiter::check at the time t, under the write guard: the map it leaves,
\* its result, and whether it inserted the bucket or reset its window.
check(table, ip, t) ==
  LET inserted == IF ip \in DOMAIN table THEN table[ip] ELSE Bucket(0, t)
      entry == IF ElapsedSecs(inserted.start, t) > window_secs
                 THEN Bucket(0, t) ELSE inserted
  IN IF entry.count >= max_requests
       THEN [limits |-> WithEntry(table, ip, entry), allowed |-> FALSE,
             fresh |-> entry # inserted \/ ip \notin DOMAIN table]
       ELSE [limits |-> WithEntry(table, ip, Bucket(entry.count + 1, entry.start)),
             allowed |-> TRUE,
             fresh |-> entry # inserted \/ ip \notin DOMAIN table]

\* Mutant: the sweep removes every bucket.
cleanup_All(table, t) == <<>>

\* Mutant: the sweep keeps a bucket only while elapsed < window_secs.
cleanup_Early(table, t) ==
  [a \in {b \in DOMAIN table : ElapsedSecs(table[b].start, t) < window_secs} |->
     table[a]]

\* RateLimiter::cleanup at the time t:
\* retain(|_, (_, instant)| instant.elapsed().as_secs() <= window_secs)
cleanup(table, t) ==
  [a \in {b \in DOMAIN table : ElapsedSecs(table[b].start, t) <= window_secs} |->
     table[a]]

NoSweep == [done |-> FALSE, removed |-> {}]

NoCheck ==
  [done |-> FALSE, ip |-> "", had |-> FALSE, before |-> Bucket(0, 0),
   swept |-> FALSE, allowed |-> FALSE, unswept_allowed |-> FALSE]

\* A request handler calls check(ip); the write guard makes the call one step.
Check(ip) ==
  /\ (ip \in DOMAIN limits /\ ElapsedSecs(limits[ip].start, now) <= window_secs)
       => Len(calls[ip]) < max_requests + MaxRejected
  /\ LET r == check(limits, ip, now)
     IN /\ limits' = r.limits
        /\ calls' = [calls EXCEPT ![ip] = IF r.fresh THEN <<r.allowed>>
                                          ELSE Append(@, r.allowed)]
        /\ unswept' = check(unswept, ip, now).limits
        /\ last_check' =
             [done |-> TRUE, ip |-> ip, had |-> ip \in DOMAIN limits,
              before |-> IF ip \in DOMAIN limits THEN limits[ip]
                                                 ELSE Bucket(0, 0),
              swept |-> ip \notin DOMAIN limits /\ ip \in DOMAIN unswept,
              allowed |-> r.allowed,
              unswept_allowed |-> check(unswept, ip, now).allowed]
  /\ last_sweep' = NoSweep
  /\ UNCHANGED <<now, poller_vars, extract_vars, txid_vars>>

\* The cleanup task of main: every five minutes, RateLimiters::cleanup.
Cleanup ==
  /\ limits' = cleanup(limits, now)
  /\ calls' = [a \in Addresses |->
                 IF a \in DOMAIN limits' THEN calls[a] ELSE <<>>]
  /\ last_sweep' = [done |-> TRUE, removed |-> DOMAIN limits \ DOMAIN limits']
  /\ last_check' = NoCheck
  /\ UNCHANGED <<now, unswept, poller_vars, extract_vars, txid_vars>>

\* Time passes.
ClockTick ==
  /\ now < MaxTicks
  /\ now' = now + 1
  /\ last_sweep' = NoSweep
  /\ last_check' = NoCheck
  /\ UNCHANGED <<limits, calls, unswept, poller_vars, extract_vars, txid_vars>>

\* ------------------------------------------------- txid.rs: TxIdGenerator

\* The keys are refetched once they are this old (hours).
REFRESH_INTERVAL == 12

CallIds == 1..NumCalls

\* CachedState: the keys and the instant they were fetched at.
CachedState(fetched_at) == [some |-> TRUE, fetched_at |-> fetched_at]
NoCachedState == [some |-> FALSE, fetched_at |-> 0]

\* A call on the generator. op: the method called; pc: the statement it
\* stands before; refreshed: the refresh it ran returned Ok; result: what it
\* returned ("id": a transaction id; "ok": Ok(()); else the TxIdError).
NoCall == [op |-> "none", pc |-> "idle", refreshed |-> FALSE, result |-> "none"]

Returns(c, result) == [txid_calls EXCEPT ![c].pc = "done", ![c].result = result]

\* TxIdGenerator::new: nothing cached; no call made yet.
TxIdInit ==
  /\ state = NoCachedState
  /\ hours = 0
  /\ txid_calls = [c \in CallIds |-> NoCall]

\* A handler calls generate or invalidate_and_refresh; the handlers of
\* concurrent requests run on the threads of the runtime.
Call(c, op) ==
  /\ txid_calls[c].pc = "idle"
  /\ txid_calls' = [txid_calls EXCEPT ![c].op = op,
                      ![c].pc = IF op = "generate" THEN "check" ELSE "invalidate"]
  /\ UNCHANGED <<state, hours, poller_vars, limiter_vars, extract_vars>>

\* generate, under the first read lock: the cached keys, if any and younger
\* than REFRESH_INTERVAL, sign the request; otherwise the call goes on to
\* refresh.
GenerateCheck(c) ==
  /\ txid_calls[c].pc = "check"
  /\ txid_calls' =
       IF state.some /\ hours - state.fetched_at < REFRESH_INTERVAL
       THEN Returns(c, "id")
       ELSE [txid_calls EXCEPT ![c].pc = "fetch"]
  /\ UNCHANGED <<state, hours, poller_vars, limiter_vars, extract_vars>>

\* invalidate_and_refresh, under the write lock: the state becomes None; the
\* call goes on to refresh.
Invalidate(c) ==
  /\ txid_calls[c].pc = "invalidate"
  /\ state' = NoCachedState
  /\ txid_calls' = [txid_calls EXCEPT ![c].pc = "fetch"]
  /\ UNCHANGED <<hours, poller_vars, limiter_vars, extract_vars>>

\* What the requests and the parsing of refresh end in.
FetchOutcomes == {"ok", "Fetch", "Parse"}

\* refresh, before it takes the lock: the home page and the script are
\* fetched and the keys built; an error ends refresh, and with it the call
\* (generate propagates it with ?, invalidate_and_refresh returns it).
RefreshFetch(c, outcome) ==
  /\ txid_calls[c].pc = "fetch"
  /\ txid_calls' =
       IF outcome = "ok"
       THEN [txid_calls EXCEPT ![c].pc = "store"]
       ELSE Returns(c, outcome)
  /\ UNCHANGED <<state, hours, poller_vars, limiter_vars, extract_vars>>

\* refresh, under the write lock: the state becomes Some(the keys, now) and
\* refresh returns Ok; invalidate_and_refresh returns it, generate goes on
\* to its second read.
RefreshStore(c) ==
  /\ txid_calls[c].pc = "store"
  /\ state' = CachedState(hours)
  /\ txid_calls' =
       IF txid_calls[c].op = "generate"
       THEN [txid_calls EXCEPT ![c].pc = "read", ![c].refreshed = TRUE]
       ELSE [Returns(c, "ok") EXCEPT ![c].refreshed = TRUE]
  /\ UNCHANGED <<hours, poller_vars, limiter_vars, extract_vars>>

\* generate, under the second read lock: the state read again signs the
\* request, or, being None, gives NotInitialized.
GenerateRead(c) ==
  /\ txid_calls[c].pc = "read"
  /\ txid_calls' = Returns(c, IF state.some THEN "id" ELSE "NotInitialized")
  /\ UNCHANGED <<state, hours, poller_vars, limiter_vars, extract_vars>>

\* An hour passes.
HourPasses ==
  /\ hours < MaxHours
  /\ hours' = hours + 1
  /\ UNCHANGED <<state, txid_calls, poller_vars, limiter_vars, extract_vars>>

\* ------------------------------------------------------- the specification

\* The runs explored. stored: the accounts the database file holds at
\* start-up; ids, endpoints: what /register is called with; unregisters:
\* what /unregister is called with; timeline: the sort_index values the third
\* party serves.
\*   - every account stored and polled, the timelines empty;
\*   - two accounts stored and polled for a timeline of one event, while
\*     they are unregistered and one of them is registered again;
\*   - one account registered, re-registered with another endpoint and
\*     polled for a timeline of several events.
Scenarios ==
  {[stored |-> Accounts, ids |-> {}, unregisters |-> {}, timeline |-> {},
    endpoints |-> {"https://up.example/a"}],
   [stored |-> {1, 2}, ids |-> {1}, unregisters |-> {1, 2},
    timeline |-> {<<9>>}, endpoints |-> {"https://up.example/a"}],
   [stored |-> {}, ids |-> {1}, unregisters |-> {}, timeline |-> SortIndexes,
    endpoints |-> Endpoints]}

\* The table of a database file holding the given accounts, none polled yet.
StoredTable(stored) ==
  [r \in stored |->
     User(r, r, "auth-a", "ct0-a", "https://up.example/a", None)]

\* The row ids that can exist in a scenario.
RowIdsOf(sc) ==
  IF sc.ids = {} THEN sc.stored
  ELSE IF sc.unregisters = {} THEN sc.stored \cup sc.ids
  ELSE RowIds

\* No call is made on the generator.
TxIdIdle == TxIdInit

\* RateLimiter::new: an empty map.
LimiterInit ==
  /\ limits = <<>>
  /\ now = 0
  /\ calls = [a \in Addresses |-> <<>>]
  /\ last_sweep = NoSweep
  /\ last_check = NoCheck
  /\ unswept = <<>>

PollerInit ==
  /\ scenario \in Scenarios
  /\ max_concurrent \in 0..MaxPermits
  /\ users = StoredTable(scenario.stored)
  /\ next_id = Cardinality(scenario.stored) + 1
  /\ sched_pc = "tick"
  /\ cycle_users = <<>>
  /\ sched_i = 1
  /\ last_tick = "none"
  /\ snapshot = <<>>
  /\ started = <<>>
  /\ permits = 0
  /\ tasks = <<>>
  /\ watched \in RowIdsOf(scenario)
  /\ sent = {}
  /\ upd_failed = FALSE
  /\ failed_poll = NoFailedPoll

\* parse_notifications has not been called.
NotExtracted ==
  [done |-> FALSE,
   result |-> [ok |-> FALSE, err |-> "", message |-> "", notifs |-> <<>>]]

\* The extraction is not explored on its own.
ExtractorIdle == payload = NotJson /\ extracted = NotExtracted

\* The extraction is about to be called on one of the payloads.
ExtractorInit ==
  /\ payload \in Payloads(MaxInstructions, MaxEntries)
  /\ extracted = NotExtracted

Init == PollerInit /\ LimiterInit /\ ExtractorIdle /\ TxIdIdle

TaskStep(k) == Probe(k) \/ Fetch(k) \/ Send(k) \/ UpdateMarker(k)

Next ==
  \/ Tick
  \/ Spawn
  \/ AwaitHandle
  \/ \E k \in 1..NumAccounts : TaskStep(k)
  \/ \E a \in Accounts, req \in Requests : Register(a, req)
  \/ \E a \in Accounts : Unregister(a)

Spec == Init /\ [][Next]_vars

\* ------------------------------------ the specification of the rate limiter

\* The poller of a server without accounts, before its first tick.
PollerAtStart ==
  /\ PollerInit
  /\ scenario.stored = {}
  /\ max_concurrent = 1
  /\ watched = 1

LimiterSpecInit == PollerAtStart /\ LimiterInit /\ ExtractorIdle /\ TxIdIdle

LimiterNext ==
  \/ \E ip \in Addresses : Check(ip)
  \/ Cleanup
  \/ ClockTick

LimiterSpec == LimiterSpecInit /\ [][LimiterNext]_vars

\* -------------------------------------- the specification of the extraction

\* parse_notifications is called on the body.
Extract ==
  /\ ~extracted.done
  /\ extracted' = [done |-> TRUE, result |-> parse_notifications(payload)]
  /\ UNCHANGED <<payload, poller_vars, limiter_vars, txid_vars>>

ExtractSpecInit == PollerAtStart /\ LimiterInit /\ ExtractorInit /\ TxIdIdle

ExtractNext == Extract

ExtractSpec == ExtractSpecInit /\ [][ExtractNext]_vars

\* ------------------------- the specification of the transaction-id generator

TxIdSpecInit == PollerAtStart /\ LimiterInit /\ ExtractorIdle /\ TxIdInit

TxIdNext ==
  \/ \E c \in CallIds, op \in {"generate", "invalidate_and_refresh"} : Call(c, op)
  \/ \E c \in CallIds : GenerateCheck(c)
  \/ \E c \in CallIds : Invalidate(c)
  \/ \E c \in CallIds, outcome \in FetchOutcomes : RefreshFetch(c, outcome)
  \/ \E c \in CallIds : RefreshStore(c)
  \/ \E c \in CallIds : GenerateRead(c)
  \/ HourPasses

TxIdSpec == TxIdSpecInit /\ [][TxIdNext]_vars

\* ------------------------------------- the specification with its scheduling

\* A poll_user future that panics: the runtime drops the future, and with it
\* the permit moved into it; its handle resolves to Err(JoinError).
Abort(k) ==
  /\ k \in DOMAIN tasks
  /\ Running(tasks[k])
  /\ Finish(k, tasks[k], "panic")
  /\ UNCHANGED <<aside_vars, scenario, max_concurrent, users, next_id, sched_vars, hist_vars>>

\* The runs with accounts stored at start-up, under a capacity with which
\* acquire_owned can complete at all; the observations follow the first row.
LiveInit ==
  /\ Init
  /\ scenario.stored # {}
  /\ max_concurrent >= 1
  /\ watched = 1

LiveNext == Next \/ \E k \in 1..NumAccounts : Abort(k)

\* The runtime keeps polling the scheduler: the interval ticks again (and
\* get_all_users does not fail on every tick for ever), a free permit is
\* taken, a task that returned is joined.
SchedulerFairness == WF_vars(Tick) /\ WF_vars(Spawn) /\ WF_vars(AwaitHandle)

\* Every request of every poll task comes back, so every task returns.
FairSpec ==
  /\ LiveInit
  /\ [][LiveNext]_vars
  /\ SchedulerFairness
  /\ \A k \in 1..NumAccounts : WF_vars(TaskStep(k))

\* As LiveInit, the row followed being any row.
HungInit ==
  /\ Init
  /\ scenario.stored # {}
  /\ max_concurrent >= 1

\* The requests of the task polling the watched row may stay unanswered for
\* ever (the client sets no deadline); every other task returns.
HungSpec ==
  /\ HungInit
  /\ [][LiveNext]_vars
  /\ SchedulerFairness
  /\ \A k \in 1..NumAccounts :
       WF_vars(TaskStep(k) /\ tasks[k].user.id # watched)

\* ------------------------------------------------------------- the claims

\* a < b in lexicographic order, stated on positions: a and b agree before
\* position i, where a ends or holds the smaller byte.
LexLess(a, b) ==
  \E i \in 1..Len(b) :
    /\ i - 1 <= Len(a)
    /\ \A j \in 1..(i - 1) : a[j] = b[j]
    /\ (Len(a) = i - 1 \/ a[i] < b[i])

\* The sort_index values of a sequence of notifications or of attempts.
IndexesOf(seq) == {seq[i].sort_index : i \in 1..Len(seq)}
IndexSeq(seq) == [i \in 1..Len(seq) |-> seq[i].sort_index]

\* The greatest element of a non-empty set of sort_index values.
LexMax(S) == CHOOSE m \in S : \A e \in S : ~LexLess(m, e)

RunningTasks == {k \in DOMAIN tasks : Running(tasks[k])}

\* The marker the table holds for the row a task polls, if the row exists.
RowExists(t) == t.user.id \in DOMAIN users
StoredMarker(t) == users[t.user.id].last_notif_sort_index

\* C1: at every instant the number of poll tasks that have started and not
\* yet returned is at most the semaphore capacity max_concurrent.
C1_RunningAtMostCapacity == Cardinality(RunningTasks) <= max_concurrent

\* C1 witness: capacity 2 is used up by two running tasks while the spawning
\* loop still holds an account it cannot start.
C1_Witness ==
  /\ max_concurrent = 2
  /\ Cardinality(RunningTasks) = 2
  /\ sched_pc = "spawn"
  /\ cycle_users # <<>>

\* C2: whenever the scheduler is at the tick, where it reads the account set
\* and from where alone a cycle's tasks are started, every task of the
\* previous cycle has returned and was awaited.
C2_CyclesNeverOverlap ==
  sched_pc = "tick" => \A k \in DOMAIN tasks : tasks[k].pc = "joined"

\* C2 witness: back at the tick after a cycle of several tasks, one of which
\* ended in a storage error.
C2_Witness ==
  /\ sched_pc = "tick"
  /\ Len(tasks) >= 2
  /\ upd_failed

\* Task k makes a delivery attempt in this step.
SendStep(k) ==
  /\ k \in DOMAIN tasks
  /\ k \in DOMAIN tasks'
  /\ tasks[k].pc = "send"
  /\ Len(tasks'[k].attempts) = Len(tasks[k].attempts) + 1

SentInStep(k) == tasks'[k].attempts[Len(tasks'[k].attempts)].sort_index

\* C3 as claimed: no event is sent to an account's endpoint more than once.
C3_NoEventSentTwice ==
  [][\A k \in 1..NumAccounts :
       (SendStep(k) /\ tasks[k].user.id = watched) => SentInStep(k) \notin sent]_vars

\* C3 amended: an event is sent again for an account record only after a
\* marker update of that record failed in storage.
C3_SentTwiceOnlyAfterFailedUpdate ==
  [][\A k \in 1..NumAccounts :
       (SendStep(k) /\ tasks[k].user.id = watched)
         => (SentInStep(k) \notin sent \/ upd_failed)]_vars

\* C3 witness: a later cycle's task of the watched record has made an
\* attempt, none of its earlier marker updates failed, and an event sent in
\* an earlier cycle is not among its attempts.
C3_Witness ==
  \E k \in DOMAIN tasks :
    /\ tasks[k].user.id = watched
    /\ tasks[k].attempts # <<>>
    /\ ~upd_failed
    /\ tasks[k].user.last_notif_sort_index.some
    /\ sent \ IndexesOf(tasks[k].attempts) # {}

\* C4: once set, the stored marker of a row is never replaced by None or by
\* a smaller string.
C4_MarkerNeverDecreases ==
  [][\A r \in DOMAIN users :
       (r \in DOMAIN users' /\ users[r].last_notif_sort_index.some)
         => /\ users'[r].last_notif_sort_index.some
            /\ ~LexLess(users'[r].last_notif_sort_index.val,
                        users[r].last_notif_sort_index.val)]_vars

\* C4 witness: more events were sent for the watched record than one cycle
\* can keep and no update failed, so its marker, now "9", replaced a marker
\* set by an earlier cycle.
C4_Witness ==
  /\ watched \in DOMAIN users
  /\ users[watched].last_notif_sort_index = Some(<<9>>)
  /\ Cardinality(sent) > MaxEntries
  /\ ~upd_failed

\* C5: the kept set of a task is exactly the extracted events whose
\* sort_index is greater than the marker of the task's user; without a
\* marker every extracted event is kept.
C5_KeptIsExactlyTheNewer ==
  \A k \in DOMAIN tasks :
    LET t == tasks[k]
        last == t.user.last_notif_sort_index
        newer == {i \in 1..Len(t.notifs) :
                    ~last.some \/ LexLess(last.val, t.notifs[i].sort_index)}
    IN /\ IndexesOf(t.new_notifs) = {t.notifs[i].sort_index : i \in newer}
       /\ Len(t.new_notifs) = Cardinality(newer)

\* C5 witness: marker "5", extracted "9" and "10": exactly "9" is kept.
C5_Witness ==
  \E k \in DOMAIN tasks :
    /\ tasks[k].user.last_notif_sort_index = Some(<<5>>)
    /\ IndexSeq(tasks[k].notifs) = <<<<9>>, <<1, 0>>>>
    /\ IndexSeq(tasks[k].new_notifs) = <<<<9>>>>

\* C6: a task issues its marker update after the attempt for the last kept
\* event and not before, exactly when it kept an event, and a successful
\* update stores the greatest kept sort_index, whatever the deliveries did.
C6_AdvanceAfterLastAttempt ==
  \A k \in DOMAIN tasks :
    LET t == tasks[k]
    IN /\ t.pc \in {"probe", "fetch", "send"} => t.n_update = 0
       /\ t.pc = "send" => Len(t.attempts) < Len(t.new_notifs)
       /\ t.pc = "update" =>
            t.n_update = 0 /\ Len(t.attempts) = Len(t.new_notifs)
       /\ (Running(t) /\ RowExists(t)) =>
            StoredMarker(t) = t.user.last_notif_sort_index
       /\ t.pc = "done" => t.n_update = (IF t.new_notifs # <<>> THEN 1 ELSE 0)
       /\ (t.pc = "done" /\ t.n_update = 1 /\ t.result = "ok" /\ RowExists(t)) =>
            StoredMarker(t) = Some(LexMax(IndexesOf(t.new_notifs)))

\* C6 witness: two events kept, the delivery of the newest failed, and the
\* marker stored is the greatest kept sort_index.
C6_Witness ==
  \E k \in DOMAIN tasks :
    /\ tasks[k].pc = "done"
    /\ tasks[k].n_update = 1
    /\ tasks[k].result = "ok"
    /\ Len(tasks[k].new_notifs) = 2
    /\ ~tasks[k].attempts[1].ok
    /\ RowExists(tasks[k])
    /\ StoredMarker(tasks[k]) = Some(tasks[k].new_notifs[1].sort_index)

\* C7: every kept event gets exactly one delivery attempt, whatever the
\* outcomes of the attempts before it: the attempts of a task are always the
\* first kept events, one POST each, and all of them once the loop is over.
C7_EveryKeptEventAttemptedOnce ==
  \A k \in DOMAIN tasks :
    LET t == tasks[k]
    IN /\ Len(t.attempts) <= Len(t.new_notifs)
       /\ IndexSeq(t.attempts) =
            IndexSeq(SubSeq(t.new_notifs, 1, Len(t.attempts)))
       /\ t.pc \in {"update", "done"} => Len(t.attempts) = Len(t.new_notifs)

\* C7 witness: the first delivery failed and the second event was attempted.
C7_Witness ==
  \E k \in DOMAIN tasks :
    /\ Len(tasks[k].attempts) = 2
    /\ ~tasks[k].attempts[1].ok
    /\ tasks[k].pc \in {"update", "done"}

\* C8: within a task the attempts are made in non-increasing sort_index
\* order.
C8_AttemptsNewestFirst ==
  \A k \in DOMAIN tasks :
    \A i, j \in 1..Len(tasks[k].attempts) :
      i < j => ~LexLess(tasks[k].attempts[i].sort_index,
                        tasks[k].attempts[j].sort_index)

\* C8 witness: "9" was attempted, then "10".
C8_Witness ==
  \E k \in DOMAIN tasks :
    IndexSeq(tasks[k].attempts) = <<<<9>>, <<1, 0>>>>

\* C9: a task whose probe reported an unread count of 0 has returned Ok
\* without a fetch, a delivery attempt or a marker update, and the marker of
\* its row is the one it started with.
C9_ZeroUnreadDoesNothing ==
  \A k \in DOMAIN tasks :
    LET t == tasks[k]
    IN t.badge = <<0>> =>
         /\ t.pc = "done" /\ t.result = "ok"
         /\ t.n_fetch = 0 /\ t.attempts = <<>> /\ t.n_update = 0
         /\ RowExists(t) => StoredMarker(t) = t.user.last_notif_sort_index

\* C9 witness: a task of a row with a marker ended on an unread count of 0.
C9_Witness ==
  \E k \in DOMAIN tasks :
    /\ tasks[k].badge = <<0>>
    /\ tasks[k].pc = "done"
    /\ tasks[k].user.last_notif_sort_index.some

\* C10: a task whose probe did not return a count, or whose fetch came back
\* as a failure, has returned without a delivery attempt or a marker update,
\* the marker of its row is the one it started with, and no task issues the
\* probe or the fetch more than once.
C10_FailedProbeOrFetchEndsTask ==
  \A k \in DOMAIN tasks :
    LET t == tasks[k]
    IN /\ t.n_probe <= 1 /\ t.n_fetch <= 1
       /\ ((t.n_probe = 1 /\ t.badge = <<>>) \/ t.fetch_failed) =>
            /\ t.pc = "done" /\ t.result = "err"
            /\ t.attempts = <<>> /\ t.n_update = 0
            /\ RowExists(t) => StoredMarker(t) = t.user.last_notif_sort_index

\* C10 witness: the fetch of a row with a marker failed and the task is over.
C10_Witness ==
  \E k \in DOMAIN tasks :
    /\ tasks[k].fetch_failed
    /\ tasks[k].pc = "done"
    /\ tasks[k].user.last_notif_sort_index.some

\* C11: a marker update that fails leaves the stored marker of the row as the
\* task read it, and as long as no later update of the row succeeds every
\* task of the row that extracts the same events keeps the same events and
\* attempts each of them again.
C11_FailedUpdateRedelivers ==
  /\ \A k \in DOMAIN tasks :
       LET t == tasks[k]
       IN (t.pc = "done" /\ t.n_update = 1 /\ t.result = "err" /\ RowExists(t))
            => StoredMarker(t) = t.user.last_notif_sort_index
  /\ (failed_poll.some /\ watched \in DOMAIN users)
       => users[watched].last_notif_sort_index = failed_poll.last
  /\ \A k \in DOMAIN tasks :
       LET t == tasks[k]
       IN (/\ failed_poll.some
           /\ t.user.id = watched
           /\ t.n_fetch = 1 /\ ~t.fetch_failed
           /\ IndexSeq(t.notifs) = IndexSeq(failed_poll.notifs))
            => /\ IndexSeq(t.new_notifs) = IndexSeq(failed_poll.new_notifs)
               /\ t.pc \in {"update", "done"} =>
                    IndexSeq(t.attempts) = IndexSeq(failed_poll.new_notifs)

\* C11 witness: a task of a cycle after the failed update extracted the same
\* two events, kept the same one and has attempted it again.
C11_Witness ==
  \E k \in DOMAIN tasks :
    /\ failed_poll.some
    /\ failed_poll.last.some
    /\ tasks[k].user.id = watched
    /\ tasks[k].pc = "update"
    /\ Len(tasks[k].notifs) = 2
    /\ IndexSeq(tasks[k].notifs) = IndexSeq(failed_poll.notifs)
    /\ tasks[k].attempts # <<>>
    /\ IndexSeq(tasks[k].attempts) = IndexSeq(failed_poll.new_notifs)
    /\ IndexesOf(tasks[k].attempts) \subseteq sent

\* C12: after a tick on which get_all_users failed, or returned no account,
\* the scheduler is back at the wait for the next tick and no poll task was
\* started: the only tasks are those of an earlier cycle, all of them awaited.
C12_FailedOrEmptyTickIsSkipped ==
  last_tick \in {"err", "empty"} =>
    /\ sched_pc = "tick"
    /\ cycle_users = <<>>
    /\ \A k \in DOMAIN tasks : tasks[k].pc = "joined"

\* C12 witness: the retrieval failed on a tick after a complete cycle, with
\* accounts in the table.
C12_Witness ==
  /\ last_tick = "err"
  /\ DOMAIN users # {}
  /\ tasks # <<>>

\* A task of the cycle in progress has ended in a probe, fetch or storage
\* error, with a failed delivery, or by a panic.
FailedInCycle ==
  \E k \in DOMAIN tasks :
    /\ tasks[k].pc = "done"
    /\ \/ tasks[k].result \in {"err", "panic"}
       \/ \E i \in 1..Len(tasks[k].attempts) : ~tasks[k].attempts[i].ok

\* C13: a cycle in which a task failed is followed by the scheduler's return
\* to the wait for the next tick, every handle awaited, and after it by the
\* start of a later cycle unless the table has been emptied.
C13_LoopSurvivesFailedCycle ==
  FailedInCycle ~>
    (/\ sched_pc = "tick"
     /\ \A k \in DOMAIN tasks : tasks[k].pc = "joined"
     /\ <>(sched_pc = "spawn" \/ DOMAIN users = {}))

\* C13 witness: back at the tick after a cycle whose tasks were awaited, one
\* of them having failed to store its marker, and a later cycle has started.
C13_Witness ==
  /\ upd_failed
  /\ failed_poll.some
  /\ sched_pc = "spawn"
  /\ tasks = <<>>

\* C14 as claimed: with a capacity of 1 or more, while one task may never
\* return, the spawning loop still starts a task for every account of the
\* snapshot.
C14_HungTaskDelaysNoStart ==
  (sched_pc = "spawn") ~> (sched_pc = "join")

\* C14 amended: with a capacity of 2 or more, while one task may never
\* return, the spawning loop still starts a task for every account of the
\* snapshot.
C14_HungTaskDelaysNoStartFromTwo ==
  (sched_pc = "spawn" /\ max_concurrent >= 2) ~> (sched_pc = "join")

\* C14 witness: capacity 2, the task of the watched row has not got past its
\* probe, and a task was started for every account of the snapshot, more
\* accounts than permits.
C14_Witness ==
  /\ max_concurrent = 2
  /\ sched_pc = "join"
  /\ Len(tasks) > max_concurrent
  /\ tasks[1].user.id = watched
  /\ tasks[1].pc = "probe"

\* The row ids of the users the spawning loop has yet to take.
IdsOf(us) == [i \in 1..Len(us) |-> us[i].id]

\* C15: with a capacity of 1 or more and every task returning, the tasks
\* started so far in a cycle and the accounts still to be taken are together
\* the snapshot, in which no account occurs twice; each task not yet awaited
\* polls the account it was started for; and every cycle gets to its end,
\* where exactly one task was started for each account of the snapshot and
\* all of them were awaited.
C15_OneTaskPerAccountAndCycleEnds ==
  /\ [](/\ started \o IdsOf(cycle_users) = snapshot
        /\ \A i, j \in 1..Len(snapshot) : i # j => snapshot[i] # snapshot[j]
        /\ Len(tasks) = Len(started)
        /\ \A k \in DOMAIN tasks :
             tasks[k].pc # "joined" => tasks[k].user.id = started[k]
        /\ sched_pc \in {"join", "tick"} => started = snapshot)
  /\ (sched_pc = "spawn") ~>
       (/\ sched_pc = "tick"
        /\ snapshot # <<>>
        /\ started = snapshot
        /\ Len(tasks) = Len(snapshot)
        /\ \A k \in DOMAIN tasks : tasks[k].pc = "joined")

\* C15 witness: a cycle over more accounts than permits is complete, one
\* task started for each account of its snapshot.
C15_Witness ==
  /\ sched_pc = "tick"
  /\ Len(snapshot) > max_concurrent
  /\ started = snapshot
  /\ Len(tasks) = Len(snapshot)
  /\ \A k \in DOMAIN tasks : tasks[k].pc = "joined"

\* C16: a step of a poll task leaves the set of rows and the id sequence of
\* the table as they are, leaves every row of another account unchanged, and
\* changes of its own account's row at most the marker.
C16_TaskWritesOnlyItsOwnMarker ==
  [][\A k \in 1..NumAccounts :
       TaskStep(k) =>
         /\ DOMAIN users' = DOMAIN users
         /\ next_id' = next_id
         /\ \A r \in DOMAIN users :
              /\ r # tasks[k].user.id => users'[r] = users[r]
              /\ users'[r].id = users[r].id
              /\ users'[r].twitter_user_id = users[r].twitter_user_id
              /\ users'[r].auth_token = users[r].auth_token
              /\ users'[r].csrf_token = users[r].csrf_token
              /\ users'[r].up_endpoint = users[r].up_endpoint]_vars

\* C16 witness: a task has stored the marker of its account while the row of
\* another account, never polled with success, has none.
C16_Witness ==
  \E k \in DOMAIN tasks :
    /\ tasks[k].pc = "done"
    /\ tasks[k].n_update = 1
    /\ tasks[k].result = "ok"
    /\ RowExists(tasks[k])
    /\ StoredMarker(tasks[k]).some
    /\ \E r \in DOMAIN users :
         r # tasks[k].user.id /\ ~users[r].last_notif_sort_index.some

\* The number of TRUE among the results of a sequence of check calls.
Admitted(results) == Cardinality({i \in 1..Len(results) : results[i]})

\* C17: of the check calls made for an address on one window of its bucket,
\* in any interleaving with the calls for other addresses, with sweeps and
\* with the clock, exactly the first max_requests returned true and every
\* further one false; the count of the bucket is the number of the address's
\* own admitted calls.
C17_FirstNAdmittedPerAddress ==
  \A ip \in Addresses :
    /\ \A i \in 1..Len(calls[ip]) : calls[ip][i] = (i <= max_requests)
    /\ ip \in DOMAIN limits => limits[ip].count = Admitted(calls[ip])
    /\ ip \notin DOMAIN limits => calls[ip] = <<>>

\* C17 witness: an address got true, true, false (and false again) while
\* another address, called in between, has used one request of its own quota.
C17_Witness ==
  /\ Len(calls["10.0.0.1"]) = max_requests + MaxRejected
  /\ Admitted(calls["10.0.0.1"]) = max_requests
  /\ ~calls["10.0.0.1"][max_requests + 1]
  /\ calls["10.0.0.2"] = <<TRUE>>
  /\ limits["10.0.0.2"].count = 1
  /\ limits["10.0.0.2"].start > limits["10.0.0.1"].start

\* window_secs seconds have passed since the bucket's window start.
WindowElapsed(bucket, t) == t - bucket.start >= window_secs * TicksPerSec

\* window_secs + 1 seconds have passed since the bucket's window start.
WindowLongElapsed(bucket, t) ==
  t - bucket.start >= (window_secs + 1) * TicksPerSec

\* C18 as claimed: right after a sweep the map holds no bucket whose window of
\* window_secs seconds has elapsed, and every bucket whose window had not
\* elapsed is there as it was.
C18_SweepLeavesNoElapsedBucket ==
  [][Cleanup =>
       /\ \A a \in DOMAIN limits' : ~WindowElapsed(limits'[a], now')
       /\ \A a \in DOMAIN limits :
            ~WindowElapsed(limits[a], now) =>
              a \in DOMAIN limits' /\ limits'[a] = limits[a]]_vars

\* C18 amended: right after a sweep the map holds no bucket whose window
\* start lies window_secs + 1 seconds or more back, and every bucket younger
\* than that is there as it was.
C18_SweepLeavesNoLongElapsedBucket ==
  [][Cleanup =>
       /\ \A a \in DOMAIN limits' : ~WindowLongElapsed(limits'[a], now')
       /\ \A a \in DOMAIN limits :
            ~WindowLongElapsed(limits[a], now) =>
              a \in DOMAIN limits' /\ limits'[a] = limits[a]]_vars

\* C18 witness: a sweep has removed a bucket and kept a full bucket whose
\* window of window_secs seconds has elapsed.
C18_Witness ==
  /\ last_sweep.done
  /\ last_sweep.removed # {}
  /\ \E a \in DOMAIN limits :
       /\ WindowElapsed(limits[a], now)
       /\ limits[a].count = max_requests

\* C19: extraction of a payload whose top-level errors value is a non-empty
\* array returns the API error with the message of the array's first element
\* ("Unknown error" when that element has no message string) and no events,
\* whatever instructions the payload has; extraction of any other payload
\* never returns the API error.
C19_ErrorsArrayGivesApiError ==
  extracted.done =>
    LET r == extracted.result
        e == payload.errors
    IN IF e.kind = "array" /\ e.items # <<>>
       THEN /\ ~r.ok /\ r.err = "Api" /\ r.notifs = <<>>
            /\ r.message = IF e.items[1].has_message THEN e.items[1].message
                                                    ELSE "Unknown error"
       ELSE r.err # "Api"

\* The positions <<instruction, entry>> of the entries of a payload.
Slots(body) ==
  UNION {{<<i, j>> : j \in 1..Len(body.instructions[i].entries)} :
           i \in 1..Len(body.instructions)}

\* The entry at a position of a payload.
EntryAt(body, slot) == body.instructions[slot[1]].entries[slot[2]]

\* The entries no event may be built from: those of an instruction that is
\* not entry-adding, cursors, and entries without a non-empty sort_index.
Excluded(body, slot) ==
  \/ body.instructions[slot[1]].type # "TimelineAddEntries"
  \/ IsCursorId(EntryAt(body, slot).entryId)
  \/ EntryAt(body, slot).sortIndex = <<>>

\* C19 witness: a payload with two errors of different messages and an
\* entry-adding instruction with a notification came back as the API error.
C19_Witness ==
  /\ extracted.done
  /\ extracted.result.err = "Api"
  /\ Len(payload.errors.items) = 2
  /\ payload.errors.items[1].message # payload.errors.items[2].message
  /\ \E slot \in Slots(payload) :
       /\ ~Excluded(payload, slot)
       /\ EntryAt(payload, slot).has_itemContent

\* Every event of the output is matched by an entry of its own that is not
\* excluded: under each sort_index the output has no more events than the
\* payload has entries that are not excluded.
EventsOnlyFromIncluded ==
  LET notifs == extracted.result.notifs
  IN \A k \in 1..Len(notifs) :
       Cardinality({l \in 1..Len(notifs) :
                      notifs[l].sort_index = notifs[k].sort_index})
         <= Cardinality({slot \in Slots(payload) :
                           /\ ~Excluded(payload, slot)
                           /\ EntryAt(payload, slot).sortIndex
                                = notifs[k].sort_index})

\* The payload has no instructions array, or no entry-adding instruction.
NoEntryAdding(body) ==
  \/ ~body.has_instructions
  \/ \A i \in 1..Len(body.instructions) :
       body.instructions[i].type # "TimelineAddEntries"

\* C20 as stated: the output has no event built from a cursor entry, from an
\* entry without a non-empty sort_index or from an instruction that is not
\* entry-adding, and every JSON payload without the instructions array or
\* without an entry-adding instruction gives the empty sequence, not an error.
C20_NoEventFromExcludedEntries ==
  extracted.done =>
    /\ EventsOnlyFromIncluded
    /\ (payload.json /\ NoEntryAdding(payload)) =>
         (extracted.result.ok /\ extracted.result.notifs = <<>>)

\* C20, amended: the same, where the payloads that give the empty sequence
\* are those that also have no non-empty top-level errors array.
C20_NoEventFromExcludedEntriesUnlessErrors ==
  extracted.done =>
    /\ EventsOnlyFromIncluded
    /\ (payload.json /\ NoEntryAdding(payload)
           /\ ~FirstError(payload.errors).some) =>
         (extracted.result.ok /\ extracted.result.notifs = <<>>)

\* C20 witness: an entry-adding instruction held a cursor next to a
\* notification, and the output is the one event of the notification.
C20_Witness ==
  /\ extracted.done
  /\ extracted.result.ok
  /\ Len(extracted.result.notifs) = 1
  /\ \E i \in 1..Len(payload.instructions) :
       LET ins == payload.instructions[i]
       IN /\ ins.type = "TimelineAddEntries"
          /\ Len(ins.entries) = 2
          /\ IsCursorId(ins.entries[1].entryId)
          /\ ins.entries[1].sortIndex # <<>>
          /\ ~IsCursorId(ins.entries[2].entryId)

\* The entries an event is built from: those that are not excluded and
\* have a content with an itemContent.
Parsed(body, slot) ==
  /\ ~Excluded(body, slot)
  /\ EntryAt(body, slot).has_content
  /\ EntryAt(body, slot).has_itemContent

\* The event of an entry: the entry's sort_index and each sub-field of its
\* itemContent (the category normalised), or the sub-field's default.
EventOf(entry) ==
  LET item == entry.itemContent
  IN [sort_index |-> entry.sortIndex,
      notification_type |->
        IF item.notificationType.some
        THEN normalize_notification_type(item.notificationType.val)
        ELSE <<"u", "n", "k", "n", "o", "w", "n">>,
      message |->
        IF item.message_text.some THEN item.message_text.val
        ELSE IF item.header_text.some THEN item.header_text.val
        ELSE IF item.full_text.some THEN item.full_text.val
        ELSE <<"New notification">>,
      icon_url |-> item.iconUrl,
      url |->
        IF item.url_url.some THEN item.url_url
        ELSE IF item.rest_id.some
          THEN [some |-> TRUE,
                val |-> <<"https://x.com/i/status/">> \o item.rest_id.val]
        ELSE [some |-> FALSE, val |-> <<>>],
      from_users |->
        IF item.fromUsers.is_array
        THEN LET named == {i \in 1..Len(item.fromUsers.items) :
                             item.fromUsers.items[i].some}
             IN IF named = {} THEN <<>>
                ELSE [n \in 1..Cardinality(named) |->
                        item.fromUsers.items[
                          CHOOSE i \in named :
                            Cardinality({j \in named : j <= i}) = n].val]
        ELSE <<>>]

\* Each event of the output is the event of as many entries of the given
\* kind as the output has copies of it, and the output has one event for
\* each such entry.
OneEventPerEntry(Kind(_, _)) ==
  LET notifs == extracted.result.notifs
      slots == {slot \in Slots(payload) : Kind(payload, slot)}
  IN /\ Len(notifs) = Cardinality(slots)
     /\ \A k \in 1..Len(notifs) :
          Cardinality({l \in 1..Len(notifs) : notifs[l] = notifs[k]})
            = Cardinality({slot \in slots :
                             EventOf(EntryAt(payload, slot)) = notifs[k]})

\* The extraction returned its events (the payload is no error response).
Returned == extracted.done /\ extracted.result.ok

\* A slot of the payload that is not excluded.
Included(body, slot) == ~Excluded(body, slot)

\* C21 as stated: every entry of an entry-adding instruction that is no
\* cursor and has a non-empty sort_index gives exactly one event, with the
\* default in place of each missing sub-field, and the output has as many
\* events as there are such entries.
C21_EveryIncludedEntryGivesOneEvent ==
  Returned => OneEventPerEntry(Included)

\* C21, amended: the same of the entries that also have a content with an
\* itemContent; the others give no event.
C21_EveryParsedEntryGivesOneEvent ==
  Returned => OneEventPerEntry(Parsed)

\* C21 witness: an entry with a header text and a nested post id, and none of
\* the other sub-fields, gave the one event of the output.
C21_Witness ==
  /\ Returned
  /\ Len(extracted.result.notifs) = 1
  /\ \E slot \in Slots(payload) :
       LET item == EntryAt(payload, slot).itemContent
       IN /\ Parsed(payload, slot)
          /\ ~item.message_text.some /\ item.header_text.some
          /\ ~item.url_url.some /\ item.rest_id.some
          /\ ~item.iconUrl.some /\ ~item.fromUsers.is_array
          /\ ~item.notificationType.some

\* C22: the events extraction returns are in non-increasing order of
\* sort_index, compared as strings, whatever the order of the entries in the
\* payload and whichever entry-adding instruction holds them.
C22_OutputSortedDescending ==
  Returned =>
    \A i, j \in 1..Len(extracted.result.notifs) :
      i < j => ~StrLess(extracted.result.notifs[i].sort_index,
                        extracted.result.notifs[j].sort_index)

\* C22 witness: two entry-adding instructions, the first with "10" and the
\* second with "9", gave the events "9", "10".
C22_Witness ==
  /\ Returned
  /\ Len(payload.instructions) = 2
  /\ \A i \in 1..2 : /\ payload.instructions[i].type = "TimelineAddEntries"
                      /\ Len(payload.instructions[i].entries) = 1
                      /\ Parsed(payload, <<i, 1>>)
  /\ EntryAt(payload, <<1, 1>>).sortIndex = <<1, 0>>
  /\ EntryAt(payload, <<2, 1>>).sortIndex = <<9>>
  /\ Len(extracted.result.notifs) = 2
  /\ extracted.result.notifs[1].sort_index = <<9>>
  /\ extracted.result.notifs[2].sort_index = <<1, 0>>

\* Two categories are the same but for the case of their letters.
SameIgnoringCase(a, b) ==
  /\ Len(a) = Len(b)
  /\ \A i \in 1..Len(a) :
       \/ a[i] = b[i]
       \/ \E j \in 1..Len(UpperCase) :
            {a[i], b[i]} = {UpperCase[j], LowerCase[j]}

\* A category has no upper-case letter.
IsLowerCase(a) ==
  \A i \in 1..Len(a) : \A j \in 1..Len(UpperCase) : a[i] # UpperCase[j]

\* The entry of the payload has a category, and its event was returned.
CategoryExtracted ==
  /\ Returned
  /\ Len(extracted.result.notifs) = 1
  /\ Slots(payload) = {<<1, 1>>}
  /\ EntryAt(payload, <<1, 1>>).itemContent.notificationType.some

\* C23: the category of an event is the canonical tag of the synonym its raw
\* category spells in any case ("Likes", "liked" and "LIKE" give "like"), is
\* the raw category in lower case when that spells no synonym ("Spaces" gives
\* "spaces", not a catch-all), and is left unchanged by normalizing it again.
C23_CategoryNormalization ==
  CategoryExtracted =>
    LET raw == EntryAt(payload, <<1, 1>>).itemContent.notificationType.val
        tag == extracted.result.notifs[1].notification_type
        known == UNION {TypeArms[i].patterns : i \in 1..Len(TypeArms)}
    IN /\ \A i \in 1..Len(TypeArms) :
            (\E p \in TypeArms[i].patterns : SameIgnoringCase(raw, p))
              => tag = TypeArms[i].tag
       /\ (\A p \in known : ~SameIgnoringCase(raw, p))
            => (SameIgnoringCase(tag, raw) /\ IsLowerCase(tag))
       /\ raw \in {<<"L", "i", "k", "e", "s">>, <<"l", "i", "k", "e", "d">>,
                    <<"L", "I", "K", "E">>}
            => tag = <<"l", "i", "k", "e">>
       /\ raw = <<"S", "p", "a", "c", "e", "s">>
            => tag = <<"s", "p", "a", "c", "e", "s">>
       /\ normalize_notification_type(tag) = tag

\* C23 witness: the raw category "Spaces" came out as "spaces".
C23_Witness ==
  /\ CategoryExtracted
  /\ EntryAt(payload, <<1, 1>>).itemContent.notificationType.val
       = <<"S", "p", "a", "c", "e", "s">>
  /\ extracted.result.notifs[1].notification_type
       = <<"s", "p", "a", "c", "e", "s">>

\* A task whose probe came back with a JSON body whose unread-count field is
\* of the given kind ended successfully without a fetch.
EndsAsZeroUnread(kind) ==
  \A k \in DOMAIN tasks :
    LET t == tasks[k]
    IN (t.n_probe = 1 /\ t.count_field = kind) =>
         /\ t.badge = <<0>>
         /\ t.pc = "done" /\ t.result = "ok"
         /\ t.n_fetch = 0 /\ t.attempts = <<>> /\ t.n_update = 0

C25_CheckResetsElapsedWindow ==
  (last_check.done /\ last_check.had
     /\ WindowElapsed(last_check.before, now)) =>
    /\ last_check.allowed
    /\ limits[last_check.ip] = Bucket(1, now)

\* C25, amended: that holds from window_secs + 1 seconds on; a check made
\* before then leaves the window start as it was and returns false for a
\* full bucket, also at exactly window_secs seconds.
C25_CheckResetsLongElapsedWindow ==
  (last_check.done /\ last_check.had) =>
    IF WindowLongElapsed(last_check.before, now)
    THEN /\ last_check.allowed
         /\ limits[last_check.ip] = Bucket(1, now)
    ELSE /\ limits[last_check.ip].start = last_check.before.start
         /\ last_check.allowed = (last_check.before.count < max_requests)

\* C25 witness: a check has reset a full bucket whose window start lay
\* window_secs + 1 seconds or more back.
C25_Witness ==
  /\ last_check.done /\ last_check.had
  /\ last_check.before.count = max_requests
  /\ WindowLongElapsed(last_check.before, now)
  /\ last_check.allowed

\* C26: a check that returns false found a bucket and leaves it as it was,
\* count and window start, and no bucket ever counts more than max_requests.
C26_RejectedCheckChangesNothing ==
  /\ (last_check.done /\ ~last_check.allowed) =>
       /\ last_check.had
       /\ limits[last_check.ip] = last_check.before
  /\ \A a \in DOMAIN limits : limits[a].count <= max_requests

\* C26 witness: a check of a full bucket, made after time had passed since
\* its window start, returned false.
C26_Witness ==
  /\ last_check.done /\ ~last_check.allowed
  /\ last_check.before.count = max_requests
  /\ now > last_check.before.start

\* C27: every check returns what it would have returned had no cleanup run
\* between the checks made so far.
C27_SweepInvisibleToCheck ==
  last_check.done => last_check.allowed = last_check.unswept_allowed

\* C27 witness: a check found no bucket for its address because a sweep had
\* removed the bucket an earlier check had filled.
C27_Witness ==
  /\ last_check.done /\ last_check.swept /\ last_check.allowed

\* C28: registering a twitter_user_id that has a row leaves the row in place
\* with its marker and puts the request's credentials and endpoint in it, and
\* every delivery a task attempts is above the marker of the row as the
\* task's cycle read it, so none is at or below the marker a re-registration
\* kept.
C28_ReRegistrationKeepsMarker ==
  /\ [][\A a \in Accounts, req \in Requests :
          (Register(a, req) /\ RowsOf(users, a) # {}) =>
            /\ DOMAIN users' = DOMAIN users
            /\ \A r \in DOMAIN users :
                 /\ users'[r].last_notif_sort_index
                      = users[r].last_notif_sort_index
                 /\ users'[r].twitter_user_id = users[r].twitter_user_id
                 /\ IF r \in RowsOf(users, a)
                    THEN /\ users'[r].auth_token = req.auth_token
                         /\ users'[r].csrf_token = req.csrf_token
                         /\ users'[r].up_endpoint = req.up_endpoint
                    ELSE users'[r] = users[r]]_vars
  /\ [][Tick => \A i \in 1..Len(cycle_users') :
                  /\ cycle_users'[i].id \in DOMAIN users
                  /\ cycle_users'[i] = users[cycle_users'[i].id]]_vars
  /\ [](\A k \in DOMAIN tasks :
          LET t == tasks[k]
          IN t.user.last_notif_sort_index.some =>
               \A i \in 1..Len(t.attempts) :
                 StrLess(t.user.last_notif_sort_index.val,
                         t.attempts[i].sort_index))

\* C28 witness: a row that has a marker holds another endpoint than the one
\* a task of the cycle read from it: it was registered again in between.
C28_Witness ==
  \E k \in DOMAIN tasks :
    /\ RowExists(tasks[k])
    /\ users[tasks[k].user.id].up_endpoint # tasks[k].user.up_endpoint
    /\ users[tasks[k].user.id].auth_token # tasks[k].user.auth_token
    /\ users[tasks[k].user.id].last_notif_sort_index.some

\* C29: the marker update of a task whose row has been deleted changes no row
\* and creates none, and ends the task without an error unless the storage
\* itself fails; a tick reads only rows that are in the table, so a deleted
\* account is in no later snapshot; and registering an account that has no
\* row makes a row with an id never used before and with no marker.
C29_UnregisteredDuringCycle ==
  /\ [][\A k \in 1..NumAccounts :
          (UpdateMarker(k) /\ ~RowExists(tasks[k])) =>
            /\ users' = users
            /\ (tasks[k].user.id = watched /\ ~upd_failed')
                 => tasks'[k].result = "ok"]_vars
  /\ [][Tick => \A i \in 1..Len(cycle_users') :
                  \E r \in DOMAIN users :
                    /\ cycle_users'[i].id = r
                    /\ cycle_users'[i].twitter_user_id
                         = users[r].twitter_user_id]_vars
  /\ [][\A a \in Accounts, req \in Requests :
          (Register(a, req) /\ RowsOf(users, a) = {}) =>
            \E r \in DOMAIN users' \ DOMAIN users :
              /\ RowsOf(users', a) = {r}
              /\ users'[r].last_notif_sort_index = None
              /\ r >= next_id]_vars
  /\ [](/\ \A r \in DOMAIN users : r < next_id
        /\ \A k \in DOMAIN tasks : tasks[k].user.id < next_id)

\* C29 witness: a task attempted a delivery, its marker update found its row
\* deleted and ended without an error, and the account has been registered
\* again: its new row has another id and no marker.
C29_Witness ==
  \E k \in DOMAIN tasks :
    LET t == tasks[k]
    IN /\ t.update_missed /\ t.result = "ok"
       /\ t.attempts # <<>>
       /\ ~RowExists(t)
       /\ \E r \in RowsOf(users, t.user.twitter_user_id) :
            /\ r # t.user.id
            /\ users[r].last_notif_sort_index = None

\* C30: with max_concurrent = 0, a tick that reads a non-empty table takes
\* the scheduler to the first permit acquisition, where it stays for ever: no
\* task is ever started and no tick is processed after that one.
C30_ZeroCapacityBlocksScheduler ==
  /\ [](max_concurrent = 0 => (tasks = <<>> /\ started = <<>> /\ permits = 0))
  /\ [][(max_concurrent = 0 /\ Tick /\ last_tick' = "users")
          => (sched_pc' = "spawn" /\ cycle_users' # <<>>)]_vars
  /\ [][(max_concurrent = 0 /\ sched_pc = "spawn")
          => (sched_pc' = "spawn" /\ UNCHANGED <<sched_vars, permits, tasks>>)]_vars

\* C30 witness: the scheduler of capacity 0 is at the permit acquisition for
\* the first account of its snapshot, and the table has changed since.
C30_Witness ==
  /\ max_concurrent = 0
  /\ sched_pc = "spawn"
  /\ cycle_users # <<>> /\ Len(cycle_users) = Len(snapshot)
  /\ tasks = <<>>
  /\ DOMAIN users # {snapshot[i] : i \in 1..Len(snapshot)}

\* -------------------------------------------------------------------- C31

\* A generate call that ran refresh and got Ok from it.
OwnRefreshSucceeded(c) ==
  /\ txid_calls[c].op = "generate"
  /\ txid_calls[c].refreshed

\* C31: under any interleaving of concurrent generate and
\* invalidate_and_refresh calls, a generate call whose own refresh succeeded
\* returns a transaction id and never the NotInitialized error.
C31_GenerateAfterOwnRefreshReturnsId ==
  \A c \in CallIds :
    (OwnRefreshSucceeded(c) /\ txid_calls[c].pc = "done")
      => txid_calls[c].result = "id"

\* C31, the calls it is about: a generate call whose refresh succeeded has
\* returned while an invalidate_and_refresh call was made beside it.
C31_Witness ==
  \E c, d \in CallIds :
    /\ OwnRefreshSucceeded(c) /\ txid_calls[c].pc = "done"
    /\ txid_calls[d].op = "invalidate_and_refresh"
    /\ txid_calls[d].pc # "invalidate"

====
